---- MODULE Spec2Model ----
(***************************************************************************)
(* Model of the single-stage (monofasico) PIS/COFINS audit pipeline:       *)
(* rules_engine.py (classification, base sum), comparison.py (cross-check),*)
(* calculator.py (effective rate, estimation), pgdas_importer.py           *)
(* (declaration upsert) and the records of models.py.                      *)
(*                                                                         *)
(* Representation                                                          *)
(*  - a date is <<ano, mes, dia>>, a datetime <<ano, mes, dia, hora>>,     *)
(*    a period token "AAAA-MM" is <<ano, mes>>; all compare                *)
(*    lexicographically, as the zero-padded strings and the datetimes do;  *)
(*  - a string that the code strips is a sequence of one-character         *)
(*    strings;                                                             *)
(*  - a Decimal in flight is an exact fraction [n, d] in lowest terms;     *)
(*  - a Numeric(p, s) column holds an integer count of 10^-s units, which  *)
(*    is what a read of the column yields (SQLite keeps the float, the     *)
(*    result processor formats it with s decimals).                        *)
(***************************************************************************)
EXTENDS Integers, Sequences, FiniteSets, TLC

VARIABLES
    ncm_monofasicos,    \* table ncm_monofasicos: set of NCMMonofasico rows
    anexos_aliquotas,   \* table anexos_aliquotas: sequence of AnexoAliquota rows (id order)
    notas_fiscais,      \* table notas_fiscais with the owned itens_nota (id order)
    competencias_pgdas, \* table competencias_pgdas: sequence of CompetenciaPGDAS rows (id order)
    resultados_auditoria, \* table resultados_auditoria: sequence of ResultadoAuditoria rows
    execucao,           \* the request of POST /processar in progress: None, or its position in the loop over the periods
    memo,               \* history: per competencia id, the value returned by the call that set aliquota_efetiva
    ret                 \* history: the last call, its arguments and what it returned

vars == <<ncm_monofasicos, anexos_aliquotas, notas_fiscais, competencias_pgdas,
          resultados_auditoria, execucao, memo, ret>>

\* An optional value: None is <<>>, a present value v is <<v>>
None == <<>>
Some(v) == <<v>>
Val(o) == o[1]

\* ret records the last call: result is None for a call that returned None,
\* Some(value) for a returned value, and the outcome of an import
Call(op, args, result) == [op |-> op, args |-> args, result |-> result]

\* ------------------------------------------------------------------------
\* Bounds of the model
\* ------------------------------------------------------------------------
MaxNotas == 2

\* ------------------------------------------------------------------------
\* Sequence helpers
\* ------------------------------------------------------------------------
RECURSIVE SumSeq(_)
SumSeq(s) == IF s = <<>> THEN 0 ELSE Head(s) + SumSeq(Tail(s))

RECURSIVE Flatten(_)
Flatten(ss) == IF ss = <<>> THEN <<>> ELSE Head(ss) \o Flatten(Tail(ss))

\* ------------------------------------------------------------------------
\* Dates, datetimes and period tokens
\* ------------------------------------------------------------------------
RECURSIVE LexLess(_, _)
LexLess(a, b) ==
    IF a = <<>> \/ b = <<>> THEN a = <<>> /\ b # <<>>
    ELSE IF Head(a) # Head(b) THEN Head(a) < Head(b)
    ELSE LexLess(Tail(a), Tail(b))

LexLeq(a, b) == a = b \/ LexLess(a, b)

\* datetime.date(): the calendar day of a datetime
DateOf(dt) == <<dt[1], dt[2], dt[3]>>

\* datetime(ano, mes, 1): midnight of the first day
FirstInstant(ano, mes) == <<ano, mes, 1, 0>>

competencia_from_date(data) == <<data[1], data[2]>>

\* datetime.MAXYEAR: the last year a datetime can hold; building one beyond
\* it raises ValueError
MAXYEAR == 9999

\* the window of December ending in January of the same year
_intervalo_sem_virada_de_ano(ano_mes) ==
    LET ano == ano_mes[1]
        mes == ano_mes[2]
        inicio == FirstInstant(ano, mes)
        fim == IF mes = 12 THEN FirstInstant(ano, 1)
               ELSE FirstInstant(ano, mes + 1)
    IN  [inicio |-> inicio, fim |-> fim,
         erro |-> IF fim[1] > MAXYEAR THEN "ValueError" ELSE "ok"]

\* [inicio |-> the first instant of the month, fim |-> the first instant of
\* the next month, erro |-> "ok", or "ValueError" when the next month is
\* January of the year after MAXYEAR (line 97), in which case nothing is
\* returned]
_intervalo_datas_competencia(ano_mes) ==
    LET ano == ano_mes[1]
        mes == ano_mes[2]
        inicio == FirstInstant(ano, mes)
        fim == IF mes = 12 THEN FirstInstant(ano + 1, 1)
               ELSE FirstInstant(ano, mes + 1)
    IN  [inicio |-> inicio, fim |-> fim,
         erro |-> IF fim[1] > MAXYEAR THEN "ValueError" ELSE "ok"]

\* ------------------------------------------------------------------------
\* Strings that are stripped
\* ------------------------------------------------------------------------
\* the characters str.strip() removes
IsSpace(ch) == ch \in {" ", "\t", "\n", "\r"}

RECURSIVE LStrip(_)
LStrip(s) == IF s # <<>> /\ IsSpace(Head(s)) THEN LStrip(Tail(s)) ELSE s

RECURSIVE RStrip(_)
RStrip(s) == IF s # <<>> /\ IsSpace(s[Len(s)])
             THEN RStrip(SubSeq(s, 1, Len(s) - 1)) ELSE s

\* a strip of the left end only
StripEsquerda(s) == LStrip(s)

\* str.strip()
Strip(s) == RStrip(LStrip(s))

\* (x or ""): None and the empty string both give ""
OrEmpty(s) == IF s = None THEN <<>> ELSE Val(s)

CST04 == <<"0", "4">>

\* ------------------------------------------------------------------------
\* rules_engine.py
\* ------------------------------------------------------------------------
\* the filter without the validity start
EmVigenciaSemInicio(r, ncm, data_referencia) ==
    /\ r.ncm = ncm
    /\ r.flag_monofasico = TRUE
    /\ (\/ r.data_fim_vigencia = None
        \/ LexLeq(data_referencia, Val(r.data_fim_vigencia)))

\* the filter with the validity end exclusive
EmVigenciaFimExclusivo(r, ncm, data_referencia) ==
    /\ r.ncm = ncm
    /\ r.flag_monofasico = TRUE
    /\ LexLeq(r.data_inicio_vigencia, data_referencia)
    /\ (\/ r.data_fim_vigencia = None
        \/ LexLess(data_referencia, Val(r.data_fim_vigencia)))

\* the filter of the NCMMonofasico query (lines 44-52)
EmVigencia(r, ncm, data_referencia) ==
    /\ r.ncm = ncm
    /\ r.flag_monofasico = TRUE
    /\ LexLeq(r.data_inicio_vigencia, data_referencia)
    /\ (\/ r.data_fim_vigencia = None
        \/ LexLeq(data_referencia, Val(r.data_fim_vigencia)))

\* query(NCMMonofasico).filter(...).first() is not None
_ncm_esta_em_vigencia(tabela, ncm, data_referencia) ==
    LET filtrados == {r \in tabela : EmVigencia(r, ncm, data_referencia)}
        existe == IF filtrados = {} THEN None ELSE Some(CHOOSE r \in filtrados : TRUE)
    IN  existe # None

\* the third branch without its "not ncm_monofasico", as a separate if
classificar_item_ifs(item, ncm_monofasico) ==
    LET cst_pis == Strip(OrEmpty(item.cst_pis))
        cst_cofins == Strip(OrEmpty(item.cst_cofins))
        possui_cst_04 == cst_pis = CST04 \/ cst_cofins = CST04
    IN  [item EXCEPT !.eh_monofasico = ncm_monofasico /\ possui_cst_04,
                     !.eh_inconsistente = (ncm_monofasico /\ ~possui_cst_04)
                                          \/ possui_cst_04]

classificar_item(item, ncm_monofasico) ==
    LET cst_pis == Strip(OrEmpty(item.cst_pis))
        cst_cofins == Strip(OrEmpty(item.cst_cofins))
        possui_cst_04 == cst_pis = CST04 \/ cst_cofins = CST04
        reset == [item EXCEPT !.eh_monofasico = FALSE, !.eh_inconsistente = FALSE]
    IN  IF ncm_monofasico /\ possui_cst_04
        THEN [reset EXCEPT !.eh_monofasico = TRUE]
        ELSE IF ncm_monofasico /\ ~possui_cst_04
        THEN [reset EXCEPT !.eh_inconsistente = TRUE]
        ELSE IF ~ncm_monofasico /\ possui_cst_04
        THEN [reset EXCEPT !.eh_inconsistente = TRUE]
        ELSE reset

\* the window with its end included
NotaNaCompetenciaFimInclusivo(nota, empresa, ano_mes) ==
    LET intervalo == _intervalo_datas_competencia(ano_mes)
    IN  /\ nota.empresa_id = empresa
        /\ LexLeq(intervalo.inicio, nota.data_emissao)
        /\ LexLeq(nota.data_emissao, intervalo.fim)

\* NotaFiscal.empresa_id == empresa.id, data_emissao >= inicio, data_emissao < fim
NotaNaCompetencia(nota, empresa, ano_mes) ==
    LET intervalo == _intervalo_datas_competencia(ano_mes)
    IN  /\ nota.empresa_id = empresa
        /\ LexLeq(intervalo.inicio, nota.data_emissao)
        /\ LexLess(nota.data_emissao, intervalo.fim)

\* the loop body of classificar_itens_empresa_competencia for one nota
ClassificarNota(tabela, nota) ==
    LET data_ref == DateOf(nota.data_emissao)
    IN  [nota EXCEPT !.itens =
            [i \in DOMAIN nota.itens |->
                classificar_item(nota.itens[i],
                                 _ncm_esta_em_vigencia(tabela, nota.itens[i].ncm, data_ref))]]

ItensProcessados(notas, empresa, ano_mes) ==
    SumSeq([k \in DOMAIN notas |->
              IF NotaNaCompetencia(notas[k], empresa, ano_mes)
              THEN Len(notas[k].itens) ELSE 0])

calcular_base_monofasica_xml(notas, empresa, ano_mes) ==
    LET itens == Flatten([k \in DOMAIN notas |->
                    IF NotaNaCompetencia(notas[k], empresa, ano_mes)
                    THEN notas[k].itens ELSE <<>>])
        valores == [i \in DOMAIN itens |->
                      IF itens[i].eh_monofasico = TRUE THEN itens[i].valor_total ELSE 0]
    IN  SumSeq(valores)

\* ------------------------------------------------------------------------
\* Decimal arithmetic: exact fractions [n, d], d > 0, in lowest terms
\* ------------------------------------------------------------------------
Abs(x) == IF x < 0 THEN -x ELSE x

RECURSIVE GCD(_, _)
GCD(a, b) == IF b = 0 THEN a ELSE GCD(b, a % b)

Rat(n, d) ==
    LET s == IF d < 0 THEN -1 ELSE 1
        g == GCD(Abs(n), Abs(d))
    IN  [n |-> (s * n) \div g, d |-> (s * d) \div g]

RZero == [n |-> 0, d |-> 1]

\* a sum that drops its second term
RAddSoPrimeiro(a, b) == a

RAdd(a, b) ==
    LET g == GCD(a.d, b.d)
    IN  Rat(a.n * (b.d \div g) + b.n * (a.d \div g), (a.d \div g) * b.d)

RSub(a, b) == Rat(a.n * b.d - b.n * a.d, a.d * b.d)

\* the product cut to four decimals
RMulTruncado(a, b) ==
    LET g1 == GCD(Abs(a.n), b.d)
        g2 == GCD(Abs(b.n), a.d)
        n == (a.n \div g1) * (b.n \div g2)
        d == (a.d \div g2) * (b.d \div g1)
    IN  IF a.n = 0 \/ b.n = 0 THEN RZero
        ELSE Rat((n * 10000) \div d, 10000)

\* cross-cancels before multiplying, the product is the same fraction
RMul(a, b) ==
    LET g1 == GCD(Abs(a.n), b.d)
        g2 == GCD(Abs(b.n), a.d)
    IN  IF a.n = 0 \/ b.n = 0 THEN RZero
        ELSE Rat((a.n \div g1) * (b.n \div g2), (a.d \div g2) * (b.d \div g1))

\* b # 0; the quotient is kept exact (the Decimal context keeps 28 digits,
\* far finer than the 10^-4 and 10^-2 units of the columns)
RDiv(a, b) == RMul(a, Rat(b.d, b.n))

\* units of the Numeric columns
MoneyScale == 100
RateScale == 10000

\* Decimal(column value) for a Numeric(_, 2) and a Numeric(_, 4) column
FromCents(c) == Rat(c, MoneyScale)
FromRate(r) == Rat(r, RateScale)

\* what a read of a Numeric column with the given scale yields after a
\* Decimal was stored: the nearest multiple of 1/scale (ties to even)
Quantize(a, scale) ==
    LET x == a.n * scale
        q == x \div a.d
        r == x % a.d
    IN  IF 2 * r < a.d THEN q
        ELSE IF 2 * r > a.d THEN q + 1
        ELSE IF q % 2 = 0 THEN q ELSE q + 1

\* (x or 0) on a nullable numeric column
OrZero(o) == IF o = None THEN 0 ELSE Val(o)

\* ------------------------------------------------------------------------
\* calculator.py
\* ------------------------------------------------------------------------
\* the lookup taking the last matching row
obter_anexo_ultima_faixa(tabela, competencia) ==
    LET receita_12m == competencia.receita_bruta_12m
        filtrados == SelectSeq(tabela, LAMBDA a :
                        /\ Some(a.anexo) = competencia.anexo
                        /\ a.receita_bruta_min <= receita_12m
                        /\ a.receita_bruta_max >= receita_12m)
    IN  IF filtrados = <<>> THEN None ELSE Some(filtrados[Len(filtrados)])

\* query(AnexoAliquota).filter(...).first(): the first matching row or None
obter_anexo_aliquota_para_competencia(tabela, competencia) ==
    LET receita_12m == competencia.receita_bruta_12m
        filtrados == SelectSeq(tabela, LAMBDA a :
                        /\ Some(a.anexo) = competencia.anexo
                        /\ a.receita_bruta_min <= receita_12m
                        /\ a.receita_bruta_max >= receita_12m)
    IN  IF filtrados = <<>> THEN None ELSE Some(Head(filtrados))

\* the resolution that returns 0 for no revenue without storing it
garantir_aliquota_sem_gravar_zero(competencia) ==
    IF competencia.aliquota_efetiva # None
    THEN [competencia |-> competencia,
          valor |-> FromRate(Val(competencia.aliquota_efetiva)),
          gravou |-> FALSE]
    ELSE LET receita_12m == FromCents(competencia.receita_bruta_12m)
         IN  IF receita_12m = RZero
             THEN [competencia |-> competencia, valor |-> RZero, gravou |-> FALSE]
             ELSE LET aliquota_nominal == FromRate(OrZero(competencia.aliquota_nominal))
                      parcela_deduzir == FromCents(OrZero(competencia.parcela_a_deduzir))
                      aliquota_efetiva ==
                          RDiv(RSub(RMul(receita_12m, aliquota_nominal), parcela_deduzir),
                               receita_12m)
                  IN  [competencia |->
                          [competencia EXCEPT !.aliquota_efetiva =
                              Some(Quantize(aliquota_efetiva, RateScale))],
                       valor |-> aliquota_efetiva,
                       gravou |-> TRUE]

\* returns [competencia |-> the row after the call, valor |-> the Decimal
\* returned, gravou |-> whether the call stored aliquota_efetiva]
garantir_aliquota_efetiva(competencia) ==
    IF competencia.aliquota_efetiva # None
    THEN [competencia |-> competencia,
          valor |-> FromRate(Val(competencia.aliquota_efetiva)),
          gravou |-> FALSE]
    ELSE LET receita_12m == FromCents(competencia.receita_bruta_12m)
         IN  IF receita_12m = RZero
             THEN [competencia |-> [competencia EXCEPT !.aliquota_efetiva = Some(0)],
                   valor |-> RZero,
                   gravou |-> TRUE]
             ELSE LET aliquota_nominal == FromRate(OrZero(competencia.aliquota_nominal))
                      parcela_deduzir == FromCents(OrZero(competencia.parcela_a_deduzir))
                      aliquota_efetiva ==
                          RDiv(RSub(RMul(receita_12m, aliquota_nominal), parcela_deduzir),
                               receita_12m)
                  IN  [competencia |->
                          [competencia EXCEPT !.aliquota_efetiva =
                              Some(Quantize(aliquota_efetiva, RateScale))],
                       valor |-> aliquota_efetiva,
                       gravou |-> TRUE]

\* the guard with a strict comparison
SemBasePositivaEstrito(diferenca_base) == diferenca_base.n < 0

\* diferenca_base <= 0 (line 101)
SemBasePositiva(diferenca_base) == diferenca_base.n <= 0

\* returns [resultado |-> the summary after the call, competencia |-> the
\* linked row after the call, gravou |-> whether aliquota_efetiva was stored]
calcular_indev_para_resultado(tabela, resultado, competencia) ==
    LET diferenca_base == FromCents(resultado.diferenca_base)
    IN  IF SemBasePositiva(diferenca_base)
        THEN [resultado |-> [resultado EXCEPT !.pis_indev = Some(0),
                                              !.cofins_indev = Some(0),
                                              !.total_indev = Some(0)],
              competencia |-> competencia,
              gravou |-> FALSE]
        ELSE LET g == garantir_aliquota_efetiva(competencia)
                 aliquota_efetiva == g.valor
                 anexo_faixa == obter_anexo_aliquota_para_competencia(tabela, g.competencia)
             IN  IF anexo_faixa = None
                 THEN [resultado |-> [resultado EXCEPT !.pis_indev = None,
                                                       !.cofins_indev = None,
                                                       !.total_indev = None],
                       competencia |-> g.competencia,
                       gravou |-> g.gravou]
                 ELSE LET aliquota_pis_efetiva ==
                              RMul(aliquota_efetiva, FromRate(Val(anexo_faixa).percentual_pis))
                          aliquota_cofins_efetiva ==
                              RMul(aliquota_efetiva, FromRate(Val(anexo_faixa).percentual_cofins))
                          pis_indev == RMul(diferenca_base, aliquota_pis_efetiva)
                          cofins_indev == RMul(diferenca_base, aliquota_cofins_efetiva)
                          total_indev == RAdd(pis_indev, cofins_indev)
                      IN  [resultado |->
                              [resultado EXCEPT
                                  !.pis_indev = Some(Quantize(pis_indev, MoneyScale)),
                                  !.cofins_indev = Some(Quantize(cofins_indev, MoneyScale)),
                                  !.total_indev = Some(Quantize(total_indev, MoneyScale))],
                           competencia |-> g.competencia,
                           gravou |-> g.gravou]

\* ------------------------------------------------------------------------
\* pgdas_importer.py
\* ------------------------------------------------------------------------
\* index of the first row of a table satisfying P, 0 when there is none
\* (query(...).filter(...).first() on a table read in id order)
FirstIndex(tabela, P(_)) ==
    LET idx == {i \in DOMAIN tabela : P(tabela[i])}
    IN  IF idx = {} THEN 0 ELSE CHOOSE i \in idx : \A j \in idx : i <= j

\* the assignments of upsert_competencia_pgdas (lines 56-70) on a row
AtribuirCampos(competencia, dados) ==
    [competencia EXCEPT
        !.anexo = IF dados.anexo # None THEN dados.anexo ELSE competencia.anexo,
        !.receita_monofasica_declarada = OrZero(dados.receita_monofasica_declarada),
        !.receita_bruta_12m = OrZero(dados.receita_bruta_12m),
        !.aliquota_nominal = dados.aliquota_nominal,
        !.parcela_a_deduzir = dados.parcela_a_deduzir,
        !.aliquota_efetiva = dados.aliquota_efetiva]

\* CompetenciaPGDAS(empresa_id=..., ano_mes=...): the other columns unset
NovaCompetencia(empresa, ano_mes) ==
    [empresa_id |-> empresa, ano_mes |-> ano_mes, anexo |-> None,
     receita_monofasica_declarada |-> 0, receita_bruta_12m |-> 0,
     aliquota_nominal |-> None, parcela_a_deduzir |-> None,
     aliquota_efetiva |-> None]

\* A session is [tabela |-> the stored rows as the session sees them,
\* novos |-> the added rows not yet flushed, erro |-> the exception raised].
\* The session is made with autoflush=False (database.py), so the query of
\* line 44 sees the stored rows only.
upsert_competencia_pgdas(dados, sessao, empresa) ==
    IF dados.ano_mes = None
    THEN [sessao EXCEPT !.erro = "ValueError"]
    ELSE LET ano_mes == Val(dados.ano_mes)
             i == FirstIndex(sessao.tabela,
                             LAMBDA c : c.empresa_id = empresa /\ c.ano_mes = ano_mes)
         IN  IF i = 0
             THEN [sessao EXCEPT !.novos =
                      Append(@, AtribuirCampos(NovaCompetencia(empresa, ano_mes), dados))]
             ELSE [sessao EXCEPT !.tabela[i] = AtribuirCampos(@, dados)]

RECURSIVE LerLinhas(_, _, _)
LerLinhas(linhas, sessao, empresa) ==
    IF linhas = <<>> \/ sessao.erro # "ok" THEN sessao
    ELSE LerLinhas(Tail(linhas), upsert_competencia_pgdas(Head(linhas), sessao, empresa),
                   empresa)

\* commit(): the inserts are flushed; anexo is NOT NULL (models.py line 124)
Commit(sessao) ==
    IF sessao.erro # "ok" THEN sessao
    ELSE IF \E k \in DOMAIN sessao.novos : sessao.novos[k].anexo = None
    THEN [sessao EXCEPT !.erro = "IntegrityError"]
    ELSE [tabela |-> sessao.tabela \o sessao.novos, novos |-> <<>>, erro |-> "ok"]

\* the session after the call; when erro # "ok" nothing was committed and
\* the request's session is closed, which rolls the pending changes back
importar_pgdas_csv(linhas, tabela, empresa) ==
    Commit(LerLinhas(linhas, [tabela |-> tabela, novos |-> <<>>, erro |-> "ok"], empresa))

\* ------------------------------------------------------------------------
\* comparison.py
\* ------------------------------------------------------------------------
\* ResultadoAuditoria(...) of lines 46-52: the three impact columns unset
NovoResultado(empresa, competencia_id) ==
    [empresa_id |-> empresa, competencia_id |-> competencia_id,
     base_monofasica_xml |-> 0, base_monofasica_pgdas |-> 0, diferenca_base |-> 0,
     pis_indev |-> None, cofins_indev |-> None, total_indev |-> None]

\* the creation without the lookup
criar_resultado_auditoria(resultados, empresa, competencia_id) ==
    [tabela |-> Append(resultados, NovoResultado(empresa, competencia_id)),
     id |-> Len(resultados) + 1]

\* returns [tabela |-> the summaries after the call, id |-> the id of the
\* summary found or created]
get_or_create_resultado_auditoria(resultados, empresa, competencia_id) ==
    LET existente == FirstIndex(resultados,
                        LAMBDA r : r.empresa_id = empresa /\ r.competencia_id = competencia_id)
    IN  IF existente # 0
        THEN [tabela |-> resultados, id |-> existente]
        ELSE [tabela |-> Append(resultados, NovoResultado(empresa, competencia_id)),
              id |-> Len(resultados) + 1]

\* the filter without the entity
CompetenciaSemEmpresa(c, empresa, ano_mes) ==
    c.ano_mes = ano_mes

\* the filter of the CompetenciaPGDAS query (lines 72-79)
CompetenciaDaEmpresa(c, empresa, ano_mes) ==
    c.empresa_id = empresa /\ c.ano_mes = ano_mes

\* the cross-check writing the two bases and leaving the stored difference
cruzar_competencia_sem_diferenca(notas, competencias, resultados, empresa, ano_mes) ==
    LET cid == FirstIndex(competencias,
                          LAMBDA c : CompetenciaDaEmpresa(c, empresa, ano_mes))
    IN  IF cid = 0
        THEN [tabela |-> resultados, result |-> None]
        ELSE LET base_monofasica_xml == calcular_base_monofasica_xml(notas, empresa, ano_mes)
                 base_pgdas_decimal == competencias[cid].receita_monofasica_declarada
                 g == get_or_create_resultado_auditoria(resultados, empresa, cid)
             IN  [tabela |-> [g.tabela EXCEPT
                                 ![g.id].base_monofasica_xml = base_monofasica_xml,
                                 ![g.id].base_monofasica_pgdas = base_pgdas_decimal],
                  result |-> Some(g.id)]

\* the cross-check unsetting the impact columns of the summary it writes
cruzar_competencia_limpando(notas, competencias, resultados, empresa, ano_mes) ==
    LET cid == FirstIndex(competencias,
                          LAMBDA c : CompetenciaDaEmpresa(c, empresa, ano_mes))
    IN  IF cid = 0
        THEN [tabela |-> resultados, result |-> None]
        ELSE LET base_monofasica_xml == calcular_base_monofasica_xml(notas, empresa, ano_mes)
                 base_pgdas_decimal == competencias[cid].receita_monofasica_declarada
                 diferenca_base == base_monofasica_xml - base_pgdas_decimal
                 g == get_or_create_resultado_auditoria(resultados, empresa, cid)
             IN  [tabela |-> [g.tabela EXCEPT
                                 ![g.id].base_monofasica_xml = base_monofasica_xml,
                                 ![g.id].base_monofasica_pgdas = base_pgdas_decimal,
                                 ![g.id].diferenca_base = diferenca_base,
                                 ![g.id].pis_indev = None,
                                 ![g.id].cofins_indev = None,
                                 ![g.id].total_indev = None],
                  result |-> Some(g.id)]

\* the cross-check adding to the stored bases instead of replacing them
cruzar_competencia_acumulando(notas, competencias, resultados, empresa, ano_mes) ==
    LET cid == FirstIndex(competencias,
                          LAMBDA c : CompetenciaDaEmpresa(c, empresa, ano_mes))
    IN  IF cid = 0
        THEN [tabela |-> resultados, result |-> None]
        ELSE LET g == get_or_create_resultado_auditoria(resultados, empresa, cid)
                 base_monofasica_xml == g.tabela[g.id].base_monofasica_xml
                        + calcular_base_monofasica_xml(notas, empresa, ano_mes)
                 base_pgdas_decimal == competencias[cid].receita_monofasica_declarada
                 diferenca_base == base_monofasica_xml - base_pgdas_decimal
             IN  [tabela |-> [g.tabela EXCEPT
                                 ![g.id].base_monofasica_xml = base_monofasica_xml,
                                 ![g.id].base_monofasica_pgdas = base_pgdas_decimal,
                                 ![g.id].diferenca_base = diferenca_base],
                  result |-> Some(g.id)]

\* returns [tabela |-> the summaries after the call, result |-> None or
\* Some(id of the summary)]
cruzar_competencia(notas, competencias, resultados, empresa, ano_mes) ==
    LET cid == FirstIndex(competencias,
                          LAMBDA c : CompetenciaDaEmpresa(c, empresa, ano_mes))
    IN  IF cid = 0
        THEN [tabela |-> resultados, result |-> None]
        ELSE LET base_monofasica_xml == calcular_base_monofasica_xml(notas, empresa, ano_mes)
                 base_pgdas_decimal == competencias[cid].receita_monofasica_declarada
                 diferenca_base == base_monofasica_xml - base_pgdas_decimal
                 g == get_or_create_resultado_auditoria(resultados, empresa, cid)
             IN  [tabela |-> [g.tabela EXCEPT
                                 ![g.id].base_monofasica_xml = base_monofasica_xml,
                                 ![g.id].base_monofasica_pgdas = base_pgdas_decimal,
                                 ![g.id].diferenca_base = diferenca_base],
                  result |-> Some(g.id)]

\* ------------------------------------------------------------------------
\* Inputs of the model
\* ------------------------------------------------------------------------
Empresas == {1, 2}

Periodos == {<<2023, 12>>, <<2024, 1>>}

\* table ncm_monofasicos: one open entry, one expired, one inactive, one
\* one-day entry of another product code
NcmAberto ==
    [ncm |-> "2710", flag_monofasico |-> TRUE,
     data_inicio_vigencia |-> <<2024, 1, 1>>, data_fim_vigencia |-> None]
NcmExpirado ==
    [ncm |-> "2710", flag_monofasico |-> TRUE,
     data_inicio_vigencia |-> <<2023, 12, 1>>, data_fim_vigencia |-> Some(<<2023, 12, 31>>)]
NcmInativo ==
    [ncm |-> "2710", flag_monofasico |-> FALSE,
     data_inicio_vigencia |-> <<2023, 1, 1>>, data_fim_vigencia |-> None]
NcmUmDia ==
    [ncm |-> "3303", flag_monofasico |-> TRUE,
     data_inicio_vigencia |-> <<2024, 1, 15>>, data_fim_vigencia |-> Some(<<2024, 1, 15>>)]

Catalogos == SUBSET {NcmAberto, NcmExpirado, NcmInativo, NcmUmDia}

Ncms == {"2710", "3303"}

Datas == {<<2023, 11, 30>>, <<2023, 12, 1>>, <<2023, 12, 31>>, <<2024, 1, 1>>,
          <<2024, 1, 14>>, <<2024, 1, 15>>, <<2024, 1, 16>>}

\* tax-situation codes as a caller of classificar_item may pass them
CstValues == {None, Some(<<>>), Some(<<"0", "4">>), Some(<<" ", "0", "4">>),
              Some(<<"0", "4", " ">>), Some(<<"\t", "0", "4", " ">>),
              Some(<<"0", "1">>), Some(<<"0", " ", "4">>), Some(<<"4">>),
              Some(<<"0", "4", "0">>)}

Item(ncm, cst_pis, cst_cofins, valor_total) ==
    [ncm |-> ncm, cst_pis |-> cst_pis, cst_cofins |-> cst_cofins,
     valor_total |-> valor_total, eh_monofasico |-> FALSE, eh_inconsistente |-> FALSE]

\* ------------------------------------------------------------------------
\* Operations
\* ------------------------------------------------------------------------
\* xml_parser.importar_xml_nfe: stores the invoice and its items, the flags
\* at their column default
ImportarXmlNfe(empresa, data_emissao, itens) ==
    /\ Len(notas_fiscais) < MaxNotas
    /\ notas_fiscais' = Append(notas_fiscais,
            [empresa_id |-> empresa, data_emissao |-> data_emissao, itens |-> itens])
    /\ ret' = Call("importar_xml_nfe", <<empresa>>, Some(Len(notas_fiscais) + 1))
    /\ UNCHANGED <<execucao, ncm_monofasicos, anexos_aliquotas, competencias_pgdas,
                   resultados_auditoria, memo>>

ClassificarItensEmpresaCompetencia(empresa, ano_mes) ==
    /\ notas_fiscais' =
            [k \in DOMAIN notas_fiscais |->
                IF NotaNaCompetencia(notas_fiscais[k], empresa, ano_mes)
                THEN ClassificarNota(ncm_monofasicos, notas_fiscais[k])
                ELSE notas_fiscais[k]]
    /\ ret' = Call("classificar_itens_empresa_competencia", <<empresa, ano_mes>>,
                   Some(ItensProcessados(notas_fiscais, empresa, ano_mes)))
    /\ UNCHANGED <<execucao, ncm_monofasicos, anexos_aliquotas, competencias_pgdas,
                   resultados_auditoria, memo>>

ImportarPgdasCsv(empresa, linhas) ==
    LET sessao == importar_pgdas_csv(linhas, competencias_pgdas, empresa)
    IN  /\ competencias_pgdas' =
                IF sessao.erro = "ok" THEN sessao.tabela ELSE competencias_pgdas
        /\ memo' = [i \in DOMAIN competencias_pgdas' |->
                        IF i \in DOMAIN memo THEN memo[i] ELSE None]
        /\ ret' = Call("importar_pgdas_csv", <<empresa>>, sessao.erro)
        /\ UNCHANGED <<execucao, ncm_monofasicos, anexos_aliquotas, notas_fiscais,
                       resultados_auditoria>>

CruzarCompetencia(empresa, ano_mes) ==
    LET c == cruzar_competencia(notas_fiscais, competencias_pgdas,
                                resultados_auditoria, empresa, ano_mes)
    IN  /\ resultados_auditoria' = c.tabela
        /\ ret' = Call("cruzar_competencia", <<empresa, ano_mes>>, c.result)
        /\ UNCHANGED <<execucao, ncm_monofasicos, anexos_aliquotas, notas_fiscais,
                       competencias_pgdas, memo>>

GarantirAliquotaEfetiva(cid) ==
    LET g == garantir_aliquota_efetiva(competencias_pgdas[cid])
    IN  /\ competencias_pgdas' = [competencias_pgdas EXCEPT ![cid] = g.competencia]
        /\ memo' = IF g.gravou THEN [memo EXCEPT ![cid] = Some(g.valor)] ELSE memo
        /\ ret' = Call("garantir_aliquota_efetiva", <<cid>>, Some(g.valor))
        /\ UNCHANGED <<execucao, ncm_monofasicos, anexos_aliquotas, notas_fiscais,
                       resultados_auditoria>>

\* calcular_indev_para_competencia: the summary of (empresa, ano_mes), then
\* calcular_indev_para_resultado on it
CalcularIndevParaCompetencia(empresa, ano_mes) ==
    LET rid == FirstIndex(resultados_auditoria,
                    LAMBDA r : /\ r.empresa_id = empresa
                               /\ competencias_pgdas[r.competencia_id].ano_mes = ano_mes)
    IN  IF rid = 0
        THEN /\ ret' = Call("calcular_indev_para_competencia", <<empresa, ano_mes>>, None)
             /\ UNCHANGED <<execucao, ncm_monofasicos, anexos_aliquotas, notas_fiscais,
                            competencias_pgdas, resultados_auditoria, memo>>
        ELSE LET cid == resultados_auditoria[rid].competencia_id
                 c == calcular_indev_para_resultado(anexos_aliquotas,
                          resultados_auditoria[rid], competencias_pgdas[cid])
                 g == garantir_aliquota_efetiva(competencias_pgdas[cid])
             IN  /\ resultados_auditoria' =
                        [resultados_auditoria EXCEPT ![rid] = c.resultado]
                 /\ competencias_pgdas' =
                        [competencias_pgdas EXCEPT ![cid] = c.competencia]
                 /\ memo' = IF c.gravou THEN [memo EXCEPT ![cid] = Some(g.valor)]
                            ELSE memo
                 /\ ret' = Call("calcular_indev_para_competencia", <<empresa, ano_mes>>,
                                Some([id |-> rid, gravou |-> c.gravou]))
                 /\ UNCHANGED <<execucao, ncm_monofasicos, anexos_aliquotas, notas_fiscais>>

\* ------------------------------------------------------------------------
\* The audit pipeline: imports, classification, cross-check, estimation
\* ------------------------------------------------------------------------
\* table anexos_aliquotas: a bracket that starts above zero revenue, and a
\* narrower one from zero with another split that overlaps it
FaixaUm ==
    [anexo |-> "I", receita_bruta_min |-> 1, receita_bruta_max |-> 18000000,
     percentual_pis |-> 4000, percentual_cofins |-> 6000]
FaixaZero ==
    [anexo |-> "I", receita_bruta_min |-> 0, receita_bruta_max |-> 300,
     percentual_pis |-> 1000, percentual_cofins |-> 3000]

TabelasAnexo == {<<>>, <<FaixaUm>>, <<FaixaZero, FaixaUm>>}

Linha(ano_mes, anexo, declarada, receita_12m, nominal, parcela, efetiva) ==
    [ano_mes |-> ano_mes, anexo |-> anexo,
     receita_monofasica_declarada |-> declarada, receita_bruta_12m |-> receita_12m,
     aliquota_nominal |-> nominal, parcela_a_deduzir |-> parcela,
     aliquota_efetiva |-> efetiva]

\* rows of a declaration file (money in cents, rates in 10^-4):
\*  2024-01 with rate inputs and no effective rate: (3.00 * 0.1 - 0.10) / 3.00
LinhaJan == Linha(Some(<<2024, 1>>), Some("I"), None, Some(300), Some(1000), Some(10), None)
\*  2024-01 with other inputs and the effective rate given: 0.1000
LinhaJanEfetiva ==
    Linha(Some(<<2024, 1>>), Some("I"), Some(70000), Some(300), Some(2000), Some(10),
          Some(1000))
\*  2024-01 with every other cell empty
LinhaJanVazia == Linha(Some(<<2024, 1>>), None, None, None, None, None, None)
\*  a row without the period token
LinhaSemAnoMes == Linha(None, Some("I"), Some(70000), Some(300), Some(1000), Some(10), None)
\*  2023-12 declaring more than the invoices show, no trailing revenue
LinhaDez == Linha(Some(<<2023, 12>>), Some("I"), Some(200000), None, None, None, None)

LinhasCsv == {LinhaJan, LinhaJanEfetiva, LinhaJanVazia, LinhaSemAnoMes, LinhaDez}

\* declaration files
ArquivosCsv == {<<l>> : l \in LinhasCsv}

\* invoices of the pipeline runs: one exempt item of 1000.00 issued in
\* January 2024
NotaJan == <<Item("2710", Some(CST04), Some(CST04), 100000)>>

Init ==
    /\ ncm_monofasicos = {NcmAberto}
    /\ anexos_aliquotas \in TabelasAnexo
    /\ notas_fiscais = <<>>
    /\ competencias_pgdas = <<>>
    /\ resultados_auditoria = <<>>
    /\ memo = <<>>
    /\ execucao = None
    /\ ret = Call("init", <<>>, None)

Next ==
    \/ ImportarXmlNfe(1, <<2024, 1, 15, 12>>, NotaJan)
    \/ ClassificarItensEmpresaCompetencia(1, <<2024, 1>>)
    \/ \E linhas \in ArquivosCsv : ImportarPgdasCsv(1, linhas)
    \/ \E p \in Periodos : CruzarCompetencia(1, p)
    \/ \E p \in Periodos : CalcularIndevParaCompetencia(1, p)

Spec == Init /\ [][Next]_vars

\* ------------------------------------------------------------------------
\* The cross-check alone, over two entities and both period windows
\* ------------------------------------------------------------------------
NotaMista == <<Item("2710", Some(CST04), Some(<<>>), 100000),
               Item("2710", Some(<<"0", "1">>), Some(<<"0", "1">>), 50000)>>

Nota(empresa, data_emissao, itens) ==
    [empresa_id |-> empresa, data_emissao |-> data_emissao, itens |-> itens]

\* an invoice inside December, one stamped at the first instant of January
\* (where the December window ends), one of another entity, one in mid January
NotasCruzar == {Nota(1, <<2023, 12, 31, 12>>, NotaJan),
                Nota(1, <<2024, 1, 1, 0>>, NotaMista),
                Nota(2, <<2024, 1, 1, 0>>, NotaJan),
                Nota(1, <<2024, 1, 15, 12>>, NotaJan)}

ArquivosCruzar == {<<LinhaJanEfetiva>>, <<LinhaDez>>}

InitCruzar ==
    /\ ncm_monofasicos = {NcmAberto, NcmExpirado}
    /\ anexos_aliquotas = <<>>
    /\ notas_fiscais = <<>>
    /\ competencias_pgdas = <<>>
    /\ resultados_auditoria = <<>>
    /\ memo = <<>>
    /\ execucao = None
    /\ ret = Call("init", <<>>, None)

NextCruzar ==
    \/ \E n \in NotasCruzar : ImportarXmlNfe(n.empresa_id, n.data_emissao, n.itens)
    \/ \E e \in Empresas, p \in Periodos : ClassificarItensEmpresaCompetencia(e, p)
    \/ \E linhas \in ArquivosCruzar : ImportarPgdasCsv(1, linhas)
    \/ \E e \in Empresas, p \in Periodos : CruzarCompetencia(e, p)

SpecCruzar == InitCruzar /\ [][NextCruzar]_vars

\* ------------------------------------------------------------------------
\* The effective rate alone: declaration imports and garantir_aliquota_efetiva
\* ------------------------------------------------------------------------
\* the database after create_all_tables, nothing seeded
InitVazio ==
    /\ ncm_monofasicos = {}
    /\ anexos_aliquotas = <<>>
    /\ notas_fiscais = <<>>
    /\ competencias_pgdas = <<>>
    /\ resultados_auditoria = <<>>
    /\ memo = <<>>
    /\ execucao = None
    /\ ret = Call("init", <<>>, None)

NextAliquota ==
    \/ \E linhas \in ArquivosCsv : ImportarPgdasCsv(1, linhas)
    \/ \E cid \in DOMAIN competencias_pgdas : GarantirAliquotaEfetiva(cid)

SpecAliquota == InitVazio /\ [][NextAliquota]_vars

\* ------------------------------------------------------------------------
\* The rules engine alone: invoice imports and classification passes, over
\* every content of the catalog
\* ------------------------------------------------------------------------
NotasRegras ==
    {Nota(1, <<2023, 12, 31, 12>>,
          <<Item("2710", Some(CST04), Some(<<>>), 100000),
            Item("2710", Some(<<"0", "1">>), Some(<<"0", "1">>), 50000)>>),
     Nota(1, <<2024, 1, 15, 12>>,
          <<Item("2710", Some(<<>>), Some(CST04), 100000),
            Item("3303", Some(CST04), Some(CST04), 50000)>>),
     Nota(1, <<2024, 1, 1, 0>>,
          <<Item("2710", Some(<<>>), Some(<<>>), 100000),
            Item("3303", Some(<<"0", "1">>), Some(<<>>), 50000)>>),
     Nota(2, <<2024, 1, 15, 12>>,
          <<Item("2710", Some(CST04), Some(CST04), 100000)>>)}

InitRegras ==
    /\ ncm_monofasicos \in Catalogos
    /\ anexos_aliquotas = <<>>
    /\ notas_fiscais = <<>>
    /\ competencias_pgdas = <<>>
    /\ resultados_auditoria = <<>>
    /\ memo = <<>>
    /\ execucao = None
    /\ ret = Call("init", <<>>, None)

NextRegras ==
    \/ \E n \in NotasRegras : ImportarXmlNfe(n.empresa_id, n.data_emissao, n.itens)
    \/ \E e \in Empresas, p \in Periodos : ClassificarItensEmpresaCompetencia(e, p)

SpecRegras == InitRegras /\ [][NextRegras]_vars

\* ------------------------------------------------------------------------
\* classificar_item and _ncm_esta_em_vigencia as functions of their inputs
\* ------------------------------------------------------------------------
ItensTeste ==
    {[ncm |-> "2710", cst_pis |-> a, cst_cofins |-> b, valor_total |-> 100000,
      eh_monofasico |-> m, eh_inconsistente |-> i] :
        a \in CstValues, b \in CstValues, m \in BOOLEAN, i \in BOOLEAN}

ChamarClassificarItem(item, ncm_monofasico) ==
    /\ ret' = Call("classificar_item", <<item, ncm_monofasico>>,
                   Some(classificar_item(item, ncm_monofasico)))
    /\ UNCHANGED <<execucao, ncm_monofasicos, anexos_aliquotas, notas_fiscais,
                   competencias_pgdas, resultados_auditoria, memo>>

NextItem == \E item \in ItensTeste, m \in BOOLEAN : ChamarClassificarItem(item, m)

SpecItem == InitVazio /\ [][NextItem]_vars

ChamarNcmEstaEmVigencia(ncm, data_referencia) ==
    /\ ret' = Call("_ncm_esta_em_vigencia", <<ncm, data_referencia>>,
                   Some(_ncm_esta_em_vigencia(ncm_monofasicos, ncm, data_referencia)))
    /\ UNCHANGED <<execucao, ncm_monofasicos, anexos_aliquotas, notas_fiscais,
                   competencias_pgdas, resultados_auditoria, memo>>

NextNcm == \E ncm \in Ncms, d \in Datas : ChamarNcmEstaEmVigencia(ncm, d)

SpecNcm == InitRegras /\ [][NextNcm]_vars

\* ------------------------------------------------------------------------
\* Properties of the rules engine
\* ------------------------------------------------------------------------
\* a code that reads "04" once the blanks around it are dropped
EhQuatroComBrancos(s) ==
    \E i \in 1..(Len(s) - 1) :
        /\ s[i] = "0"
        /\ s[i + 1] = "4"
        /\ \A j \in (DOMAIN s) \ {i, i + 1} : s[j] \in {" ", "\t", "\n", "\r"}

TemCodigo04(item) ==
    \E c \in {item.cst_pis, item.cst_cofins} : c # None /\ EhQuatroComBrancos(Val(c))

Isento(item) == item.eh_monofasico /\ ~item.eh_inconsistente
Inconsistente(item) == ~item.eh_monofasico /\ item.eh_inconsistente
Ordinario(item) == ~item.eh_monofasico /\ ~item.eh_inconsistente

\* C1: classificar_item sets the flags by the decision table: exempt iff the
\* catalog matches and a trimmed code is "04", inconsistent iff exactly one
\* of the two holds, ordinary otherwise; empty or absent codes are not "04".
C1_TabelaDeDecisao ==
    ret.op = "classificar_item" =>
        LET m == ret.args[2]
            cod == TemCodigo04(ret.args[1])
            out == Val(ret.result)
        IN  /\ Isento(out) <=> (m /\ cod)
            /\ Inconsistente(out) <=> (m # cod)
            /\ Ordinario(out) <=> (~m /\ ~cod)
            /\ Isento(out) \/ Inconsistente(out) \/ Ordinario(out)

\* C1 witness: a code with blanks around "04" and a catalog match gave exempt,
\* over flags that were both set before the call
C1_Witness ==
    /\ ret.op = "classificar_item"
    /\ ret.args[2] = TRUE
    /\ ret.args[1].cst_pis = Some(<<"\t", "0", "4", " ">>)
    /\ ret.args[1].cst_cofins = None
    /\ ret.args[1].eh_inconsistente
    /\ Isento(Val(ret.result))

TodosItens ==
    UNION {{<<k, i>> : i \in DOMAIN notas_fiscais[k].itens} : k \in DOMAIN notas_fiscais}

ItemEm(x) == notas_fiscais[x[1]].itens[x[2]]

\* C2: in every state no item has both flags true: exactly one of exempt,
\* inconsistent, ordinary holds for each item.
C2_FlagsExclusivas ==
    \A x \in TodosItens :
        /\ ~(ItemEm(x).eh_monofasico /\ ItemEm(x).eh_inconsistente)
        /\ Cardinality({o \in {"isento", "inconsistente", "ordinario"} :
                \/ o = "isento" /\ Isento(ItemEm(x))
                \/ o = "inconsistente" /\ Inconsistente(ItemEm(x))
                \/ o = "ordinario" /\ Ordinario(ItemEm(x))}) = 1

\* C2 witness: after a pass, one item is exempt, one inconsistent, one ordinary
C2_Witness ==
    /\ ret.op = "classificar_itens_empresa_competencia"
    /\ \E x \in TodosItens : Isento(ItemEm(x))
    /\ \E x \in TodosItens : Inconsistente(ItemEm(x))
    /\ \E x \in TodosItens : Ordinario(ItemEm(x))

\* the items the last classification pass went over
ItensDoPasse ==
    {x \in TodosItens :
        /\ notas_fiscais[x[1]].empresa_id = ret.args[1]
        /\ competencia_from_date(notas_fiscais[x[1]].data_emissao) = ret.args[2]}

\* the item's product code has one catalog entry and the invoice is dated
\* before that entry's validity start
AntesDaUnicaVigencia(x) ==
    LET entradas == {r \in ncm_monofasicos : r.ncm = ItemEm(x).ncm}
    IN  /\ Cardinality(entradas) = 1
        /\ \A r \in entradas :
                LexLess(DateOf(notas_fiscais[x[1]].data_emissao), r.data_inicio_vigencia)

\* C3 as claimed: an item dated before the validity start of the only catalog
\* entry of its product code is ordinary after the pass, whatever its codes.
C3_OrdinarioQualquerCodigo ==
    ret.op = "classificar_itens_empresa_competencia" =>
        \A x \in ItensDoPasse : AntesDaUnicaVigencia(x) => Ordinario(ItemEm(x))

\* C3 amended: such an item is never exempt after the pass; it is
\* inconsistent when one of its trimmed codes is "04" and ordinary otherwise.
C3_SemVigenciaNuncaIsento ==
    ret.op = "classificar_itens_empresa_competencia" =>
        \A x \in ItensDoPasse : AntesDaUnicaVigencia(x) =>
            IF TemCodigo04(ItemEm(x)) THEN Inconsistente(ItemEm(x))
            ELSE Ordinario(ItemEm(x))

\* C3 witness: the pass went over such an item carrying "04" and over one
\* without it
C3_Witness ==
    /\ ret.op = "classificar_itens_empresa_competencia"
    /\ \E x \in ItensDoPasse :
            AntesDaUnicaVigencia(x) /\ TemCodigo04(ItemEm(x)) /\ Inconsistente(ItemEm(x))
    /\ \E x \in ItensDoPasse :
            AntesDaUnicaVigencia(x) /\ ~TemCodigo04(ItemEm(x)) /\ Ordinario(ItemEm(x))

\* days since an epoch, months counted as 31 days: order-preserving on dates
DiaOrdinal(d) == (d[1] * 12 + (d[2] - 1)) * 31 + d[3]

\* C4: the lookup is true iff some entry has the product code, the active
\* flag, start <= date and end null or >= date; any one such entry suffices.
C4_VigenciaInclusiva ==
    ret.op = "_ncm_esta_em_vigencia" =>
        (Val(ret.result) <=>
            \E r \in ncm_monofasicos :
                /\ r.ncm = ret.args[1]
                /\ r.flag_monofasico
                /\ DiaOrdinal(r.data_inicio_vigencia) <= DiaOrdinal(ret.args[2])
                /\ (r.data_fim_vigencia # None =>
                        DiaOrdinal(Val(r.data_fim_vigencia)) >= DiaOrdinal(ret.args[2])))

\* C4 witness: a match on the last day of an entry's window, with an
\* inactive entry of another window in the table
C4_Witness ==
    /\ ret.op = "_ncm_esta_em_vigencia"
    /\ Val(ret.result) = TRUE
    /\ NcmInativo \in ncm_monofasicos
    /\ \E r \in ncm_monofasicos :
            r.ncm = ret.args[1] /\ r.data_fim_vigencia = Some(ret.args[2])

\* ------------------------------------------------------------------------
\* Properties of the cross-check
\* ------------------------------------------------------------------------
\* C5: with no CompetenciaPGDAS row for the entity and period,
\* cruzar_competencia returns None, creates no summary and leaves every
\* summary and every declaration row as it was.
C5_SemCompetenciaNadaMuda ==
    [][(/\ ret'.op = "cruzar_competencia"
        /\ ~\E i \in DOMAIN competencias_pgdas :
                /\ competencias_pgdas[i].empresa_id = ret'.args[1]
                /\ competencias_pgdas[i].ano_mes = ret'.args[2])
       => (/\ ret'.result = None
           /\ resultados_auditoria' = resultados_auditoria
           /\ competencias_pgdas' = competencias_pgdas)]_vars

\* C5 witness: the call returned None for an entity without declarations
\* while another entity has a declaration of that period and a summary
C5_Witness ==
    /\ ret.op = "cruzar_competencia"
    /\ ret.result = None
    /\ ret.args[1] = 2
    /\ resultados_auditoria # <<>>
    /\ \E i \in DOMAIN competencias_pgdas : competencias_pgdas[i].ano_mes = ret.args[2]

RECURSIVE SomaValorTotal(_)
SomaValorTotal(S) ==
    IF S = {} THEN 0
    ELSE LET x == CHOOSE y \in S : TRUE
         IN  ItemEm(x).valor_total + SomaValorTotal(S \ {x})

\* the entity's exempt-flagged items whose invoice is dated in the month
ItensIsentosDoMes(empresa, ano_mes) ==
    {x \in TodosItens :
        /\ notas_fiscais[x[1]].empresa_id = empresa
        /\ competencia_from_date(notas_fiscais[x[1]].data_emissao) = ano_mes
        /\ ItemEm(x).eh_monofasico}

\* C6: after a successful cruzar_competencia the summary holds the sum of
\* valor_total of the entity's exempt items of the period, the declared
\* exempt revenue, and their signed difference (invoices minus declared).
C6_BasesEDiferenca ==
    (ret.op = "cruzar_competencia" /\ ret.result # None) =>
        LET r == resultados_auditoria[Val(ret.result)]
            c == competencias_pgdas[r.competencia_id]
        IN  /\ r.empresa_id = ret.args[1]
            /\ c.empresa_id = ret.args[1]
            /\ c.ano_mes = ret.args[2]
            /\ r.base_monofasica_xml =
                    SomaValorTotal(ItensIsentosDoMes(ret.args[1], ret.args[2]))
            /\ r.base_monofasica_pgdas = c.receita_monofasica_declarada
            /\ r.diferenca_base = r.base_monofasica_xml - r.base_monofasica_pgdas

\* C6 witness: a December cross-check with exempt invoices in the window, an
\* exempt invoice stamped at the first instant of January, and a negative
\* difference
C6_Witness ==
    /\ ret.op = "cruzar_competencia"
    /\ ret.result # None
    /\ ret.args[2] = <<2023, 12>>
    /\ resultados_auditoria[Val(ret.result)].base_monofasica_xml > 0
    /\ resultados_auditoria[Val(ret.result)].diferenca_base < 0
    /\ \E x \in TodosItens :
            /\ notas_fiscais[x[1]].data_emissao = <<2024, 1, 1, 0>>
            /\ notas_fiscais[x[1]].empresa_id = ret.args[1]
            /\ ItemEm(x).eh_monofasico

\* ------------------------------------------------------------------------
\* Properties of the effective rate and the estimation
\* ------------------------------------------------------------------------
Impactos(r) == <<r.pis_indev, r.cofins_indev, r.total_indev>>

\* C7: a second calcular_indev_para_resultado on the same summary, right
\* after the run that computed and stored the effective rate, leaves the
\* three impact fields as the first run stored them.
C7_EstimativaIdempotente ==
    [][(/\ ret.op = "calcular_indev_para_competencia"
        /\ ret.result # None
        /\ Val(ret.result).gravou
        /\ ret'.op = "calcular_indev_para_competencia"
        /\ ret'.result # None
        /\ Val(ret'.result).id = Val(ret.result).id)
       => Impactos(resultados_auditoria'[Val(ret.result).id])
              = Impactos(resultados_auditoria[Val(ret.result).id])]_vars

\* C8: once garantir_aliquota_efetiva has set the effective rate of a
\* declaration row, every later call for that row returns the value the
\* setting call returned.
C8_MesmaAliquotaDevolvida ==
    (ret.op = "garantir_aliquota_efetiva" /\ memo[ret.args[1]] # None) =>
        ret.result = memo[ret.args[1]]

\* C9: an effective rate that is non-null is changed or reset to null by no
\* later operation, a re-import of the declaration file included.
C9_AliquotaPermanente ==
    [][\A i \in DOMAIN competencias_pgdas :
          competencias_pgdas[i].aliquota_efetiva # None =>
              /\ i \in DOMAIN competencias_pgdas'
              /\ competencias_pgdas'[i].aliquota_efetiva
                     = competencias_pgdas[i].aliquota_efetiva]_vars

\* C10: after calcular_indev_para_resultado on a summary whose difference is
\* <= 0 the three impact fields are exactly zero, whatever the bracket table
\* and the effective rate.
C10_SemDiferencaImpactoZero ==
    (ret.op = "calcular_indev_para_competencia" /\ ret.result # None) =>
        LET r == resultados_auditoria[Val(ret.result).id]
        IN  r.diferenca_base <= 0 => Impactos(r) = <<Some(0), Some(0), Some(0)>>

\* C10 witness: the estimation ran on a zero difference with no bracket in
\* the table and no effective rate on the declaration row
C10_Witness ==
    /\ ret.op = "calcular_indev_para_competencia"
    /\ ret.result # None
    /\ anexos_aliquotas = <<>>
    /\ resultados_auditoria[Val(ret.result).id].diferenca_base = 0
    /\ competencias_pgdas[resultados_auditoria[Val(ret.result).id].competencia_id]
            .aliquota_efetiva = None
    /\ Impactos(resultados_auditoria[Val(ret.result).id]) = <<Some(0), Some(0), Some(0)>>

\* ------------------------------------------------------------------------
\* Declaration imports alone: files of one and of two rows, two entities
\* ------------------------------------------------------------------------
\* files with two rows: the same period token twice, two periods, a row
\* after which the read fails
ArquivosDuasLinhas == {<<LinhaJan, LinhaJanEfetiva>>, <<LinhaDez, LinhaJan>>,
                       <<LinhaJanEfetiva, LinhaSemAnoMes>>}

ArquivosImportacao == ArquivosCsv \cup ArquivosDuasLinhas

NextImportacao ==
    \E e \in Empresas, linhas \in ArquivosImportacao : ImportarPgdasCsv(e, linhas)

SpecImportacao == InitVazio /\ [][NextImportacao]_vars

\* ------------------------------------------------------------------------
\* Properties of the stored tables
\* ------------------------------------------------------------------------
\* C11: after any sequence of declaration imports there is at most one
\* competencias_pgdas row per (empresa, ano_mes).
C11_UmaCompetenciaPorPeriodo ==
    \A i, j \in DOMAIN competencias_pgdas :
        (/\ competencias_pgdas[i].empresa_id = competencias_pgdas[j].empresa_id
         /\ competencias_pgdas[i].ano_mes = competencias_pgdas[j].ano_mes) => i = j

\* ------------------------------------------------------------------------
\* comparison.cruzar_intervalo
\* ------------------------------------------------------------------------
\* the loop of lines 123-126 over the period tokens of the rows selected;
\* acc is [tabela |-> the summaries so far, result |-> the ids returned]
RECURSIVE CruzarLista(_, _, _, _, _)
CruzarLista(notas, competencias, acc, empresa, tokens) ==
    IF tokens = <<>> THEN acc
    ELSE LET c == cruzar_competencia(notas, competencias, acc.tabela, empresa, Head(tokens))
         IN  CruzarLista(notas, competencias,
                         [tabela |-> c.tabela,
                          result |-> IF c.result = None THEN acc.result
                                     ELSE Append(acc.result, Val(c.result))],
                         empresa, Tail(tokens))

\* the rows of the entity with ano_mes_inicial <= ano_mes <= ano_mes_final
\* (lines 112-120, in id order), then cruzar_competencia on each row's token
cruzar_intervalo(notas, competencias, resultados, empresa, ano_mes_inicial, ano_mes_final) ==
    LET selecionadas == SelectSeq(competencias, LAMBDA c :
                            /\ c.empresa_id = empresa
                            /\ LexLeq(ano_mes_inicial, c.ano_mes)
                            /\ LexLeq(c.ano_mes, ano_mes_final))
        tokens == [k \in DOMAIN selecionadas |-> selecionadas[k].ano_mes]
    IN  CruzarLista(notas, competencias, [tabela |-> resultados, result |-> <<>>],
                    empresa, tokens)

CruzarIntervalo(empresa, ano_mes_inicial, ano_mes_final) ==
    LET c == cruzar_intervalo(notas_fiscais, competencias_pgdas, resultados_auditoria,
                              empresa, ano_mes_inicial, ano_mes_final)
    IN  /\ resultados_auditoria' = c.tabela
        /\ ret' = Call("cruzar_intervalo", <<empresa, ano_mes_inicial, ano_mes_final>>,
                       Some(c.result))
        /\ UNCHANGED <<execucao, ncm_monofasicos, anexos_aliquotas, notas_fiscais,
                       competencias_pgdas, memo>>

\* ------------------------------------------------------------------------
\* Cross-checks of one period and of an interval, and estimations, over the
\* declarations of two entities
\* ------------------------------------------------------------------------
\* a file with the same period token on two rows, and one of another period
ArquivosIntervalo == {<<LinhaJan, LinhaJanEfetiva>>, <<LinhaDez>>}

InitIntervalo ==
    /\ ncm_monofasicos = {NcmAberto}
    /\ anexos_aliquotas = <<FaixaUm>>
    /\ notas_fiscais = <<>>
    /\ competencias_pgdas = <<>>
    /\ resultados_auditoria = <<>>
    /\ memo = <<>>
    /\ execucao = None
    /\ ret = Call("init", <<>>, None)

NextIntervalo ==
    \/ \E linhas \in ArquivosIntervalo : ImportarPgdasCsv(1, linhas)
    \/ ImportarPgdasCsv(2, <<LinhaDez>>)
    \/ \E e \in Empresas, p \in Periodos : CruzarCompetencia(e, p)
    \/ \E e \in Empresas, i \in Periodos, f \in Periodos : CruzarIntervalo(e, i, f)
    \/ \E e \in Empresas, p \in Periodos : CalcularIndevParaCompetencia(e, p)

SpecIntervalo == InitIntervalo /\ [][NextIntervalo]_vars

\* C12: after any sequence of cruzar_competencia, cruzar_intervalo and
\* estimation calls, one at a time, there is at most one resultados_auditoria
\* row per (empresa, competencia).
C12_UmResultadoPorCompetencia ==
    \A i, j \in DOMAIN resultados_auditoria :
        (/\ resultados_auditoria[i].empresa_id = resultados_auditoria[j].empresa_id
         /\ resultados_auditoria[i].competencia_id = resultados_auditoria[j].competencia_id)
            => i = j

\* C12 witness: an interval run that returned two summaries, over a table
\* where both entities have summaries
C12_Witness ==
    /\ ret.op = "cruzar_intervalo"
    /\ Len(Val(ret.result)) = 2
    /\ \E i, j \in DOMAIN resultados_auditoria :
            resultados_auditoria[i].empresa_id # resultados_auditoria[j].empresa_id

\* C13: when cruzar_competencia creates a summary, the three impact fields
\* of the new row are 0, not null (the two bases and the difference start at
\* 0 and are overwritten by the same call).
C13_NovoResultadoZerado ==
    [][(/\ ret'.op = "cruzar_competencia"
        /\ Len(resultados_auditoria') > Len(resultados_auditoria))
       => Impactos(resultados_auditoria'[Len(resultados_auditoria')])
              = <<Some(0), Some(0), Some(0)>>]_vars

\* some bracket of the table has the row's annex and a revenue range, both
\* ends included, that holds the row's trailing twelve-month revenue
TemFaixa(competencia) ==
    \E k \in DOMAIN anexos_aliquotas :
        /\ Some(anexos_aliquotas[k].anexo) = competencia.anexo
        /\ anexos_aliquotas[k].receita_bruta_min <= competencia.receita_bruta_12m
        /\ competencia.receita_bruta_12m <= anexos_aliquotas[k].receita_bruta_max

\* C14: in every state the three impact fields of a summary are all null or
\* all non-null, and they are null only if the summary's difference is > 0
\* and no bracket matches the linked declaration row.
C14_NuloSoSemFaixa ==
    \A i \in DOMAIN resultados_auditoria :
        LET r == resultados_auditoria[i]
        IN  (\E k \in 1..3 : Impactos(r)[k] = None) =>
                /\ Impactos(r) = <<None, None, None>>
                /\ r.diferenca_base > 0
                /\ ~TemFaixa(competencias_pgdas[r.competencia_id])

\* ------------------------------------------------------------------------
\* The estimation of one period: the pipeline stages of January 2024 and
\* garantir_aliquota_efetiva, over every bracket table
\* ------------------------------------------------------------------------
\* rows of 2024-01: rate to be computed (1/15), rate given with 700.00
\* declared, every other cell empty (no revenue)
ArquivosEstimativa == {<<LinhaJan>>, <<LinhaJanEfetiva>>, <<LinhaJanVazia>>}

NextEstimativa ==
    \/ ImportarXmlNfe(1, <<2024, 1, 15, 12>>, NotaJan)
    \/ ClassificarItensEmpresaCompetencia(1, <<2024, 1>>)
    \/ \E linhas \in ArquivosEstimativa : ImportarPgdasCsv(1, linhas)
    \/ CruzarCompetencia(1, <<2024, 1>>)
    \/ \E cid \in DOMAIN competencias_pgdas : GarantirAliquotaEfetiva(cid)
    \/ CalcularIndevParaCompetencia(1, <<2024, 1>>)

SpecEstimativa == Init /\ [][NextEstimativa]_vars

\* ------------------------------------------------------------------------
\* Properties of the estimation, stated on the rows as they are before the
\* run
\* ------------------------------------------------------------------------
\* the ids of the brackets with the row's annex whose range holds its revenue
FaixasDaCompetencia(competencia) ==
    {k \in DOMAIN anexos_aliquotas :
        /\ Some(anexos_aliquotas[k].anexo) = competencia.anexo
        /\ anexos_aliquotas[k].receita_bruta_min <= competencia.receita_bruta_12m
        /\ competencia.receita_bruta_12m <= anexos_aliquotas[k].receita_bruta_max}

\* the effective rate of a declaration row: the memoized one, else 0 for no
\* revenue, else (revenue x nominal rate - deduction parcel) / revenue
TaxaEsperada(competencia) ==
    IF competencia.aliquota_efetiva # None
    THEN Rat(Val(competencia.aliquota_efetiva), RateScale)
    ELSE IF competencia.receita_bruta_12m = 0 THEN Rat(0, 1)
    ELSE LET receita == competencia.receita_bruta_12m
             nominal == IF competencia.aliquota_nominal = None THEN 0
                        ELSE Val(competencia.aliquota_nominal)
             parcela == IF competencia.parcela_a_deduzir = None THEN 0
                        ELSE Val(competencia.parcela_a_deduzir)
         IN  \* receita and parcela in cents, nominal in 10^-4:
             \* (receita x nominal / 10^4 - parcela) / receita
             Rat(receita * nominal - parcela * RateScale, receita * RateScale)

\* difference (cents) x rate x share (10^-4), in cents, as an exact fraction
\* in lowest terms
ProdutoEsperado(diferenca, taxa, percentual) ==
    LET x == Rat(diferenca * taxa.n, taxa.d)
    IN  Rat(x.n * percentual, x.d * RateScale)

\* an exact fraction of cents equals the stored count of cents once rounded
\* to the cent: |n/d - centavos| <= 1/2
ArredondaPara(fracao, centavos) ==
    /\ 2 * (fracao.n - centavos * fracao.d) <= fracao.d
    /\ 2 * (centavos * fracao.d - fracao.n) <= fracao.d

\* the step is an estimation run on a summary whose difference is > 0
EstimativaComDiferenca ==
    /\ ret'.op = "calcular_indev_para_competencia"
    /\ ret'.result # None
    /\ resultados_auditoria[Val(ret'.result).id].diferenca_base > 0

\* C15: an estimation run on a summary with difference > 0 sets the three
\* impact fields to null exactly when no bracket has the declaration row's
\* annex and a range, both ends included, holding its revenue; otherwise
\* all three are non-null and computed with the shares of the first match.
C15_NuloSeSemFaixaSenaoPrimeira ==
    [][EstimativaComDiferenca =>
        LET rid == Val(ret'.result).id
            r == resultados_auditoria[rid]
            c == competencias_pgdas[r.competencia_id]
            depois == resultados_auditoria'[rid]
            faixas == FaixasDaCompetencia(c)
        IN  IF faixas = {}
            THEN Impactos(depois) = <<None, None, None>>
            ELSE LET k == CHOOSE x \in faixas : \A y \in faixas : x <= y
                     a == anexos_aliquotas[k]
                 IN  /\ \A f \in 1..3 : Impactos(depois)[f] # None
                     /\ ArredondaPara(ProdutoEsperado(r.diferenca_base, TaxaEsperada(c),
                                                      a.percentual_pis),
                                      Val(depois.pis_indev))
                     /\ ArredondaPara(ProdutoEsperado(r.diferenca_base, TaxaEsperada(c),
                                                      a.percentual_cofins),
                                      Val(depois.cofins_indev))]_vars

\* C15 witness: after an estimation on a positive difference, two brackets
\* with different shares hold the row's revenue and the impacts are stored
C15_Witness ==
    /\ ret.op = "calcular_indev_para_competencia"
    /\ ret.result # None
    /\ LET r == resultados_auditoria[Val(ret.result).id]
       IN  /\ r.diferenca_base > 0
           /\ Cardinality(FaixasDaCompetencia(competencias_pgdas[r.competencia_id])) = 2
           /\ r.pis_indev # None
           /\ Val(r.pis_indev) > 0

\* the declaration row has no memoized rate and no trailing revenue
SemTaxaSemReceita(competencia) ==
    /\ competencia.aliquota_efetiva = None
    /\ competencia.receita_bruta_12m = 0

\* C16: for a declaration row with no memoized rate and trailing revenue 0,
\* resolving the effective rate returns 0 and stores 0 as the memoized rate;
\* when the resolution is part of an estimation on a difference > 0 and no
\* bracket range holds revenue 0, the three impact fields are left null.
C16_ReceitaZeroTaxaZero ==
    [][/\ (/\ ret'.op = "garantir_aliquota_efetiva"
           /\ SemTaxaSemReceita(competencias_pgdas[ret'.args[1]]))
          => /\ ret'.result = Some([n |-> 0, d |-> 1])
             /\ competencias_pgdas'[ret'.args[1]].aliquota_efetiva = Some(0)
       /\ (/\ EstimativaComDiferenca
           /\ SemTaxaSemReceita(competencias_pgdas[
                  resultados_auditoria[Val(ret'.result).id].competencia_id]))
          => LET rid == Val(ret'.result).id
                 cid == resultados_auditoria[rid].competencia_id
             IN  /\ memo'[cid] = Some([n |-> 0, d |-> 1])
                 /\ competencias_pgdas'[cid].aliquota_efetiva = Some(0)
                 /\ FaixasDaCompetencia(competencias_pgdas[cid]) = {}
                        => Impactos(resultados_auditoria'[rid]) = <<None, None, None>>]_vars

\* C16 witness: an estimation on a positive difference has just memoized the
\* rate 0 of a row without revenue, and the impacts are null
C16_Witness ==
    /\ ret.op = "calcular_indev_para_competencia"
    /\ ret.result # None
    /\ Val(ret.result).gravou
    /\ LET r == resultados_auditoria[Val(ret.result).id]
           c == competencias_pgdas[r.competencia_id]
       IN  /\ r.diferenca_base > 0
           /\ c.receita_bruta_12m = 0
           /\ c.aliquota_efetiva = Some(0)
           /\ memo[r.competencia_id] = Some([n |-> 0, d |-> 1])
           /\ Impactos(r) = <<None, None, None>>

\* the sum of two exact fractions, in lowest terms
SomaEsperada(a, b) == Rat(a.n * b.d + b.n * a.d, a.d * b.d)

\* C17: an estimation on a difference > 0 with a matching bracket stores
\* pis_indev = difference x effective rate x percentual_pis, cofins_indev =
\* difference x effective rate x percentual_cofins and their sum, each the
\* exact product (no rounding before the column's two decimals); with invoice
\* base 1000.00, declared base 700.00, rate 0.10 and shares 0.40 / 0.60 the
\* difference is 300.00 and the impacts are 12.00, 18.00 and 30.00.
C17_ImpactoExato ==
    [][(/\ EstimativaComDiferenca
        /\ FaixasDaCompetencia(competencias_pgdas[
               resultados_auditoria[Val(ret'.result).id].competencia_id]) # {})
       => LET rid == Val(ret'.result).id
              r == resultados_auditoria[rid]
              c == competencias_pgdas[r.competencia_id]
              depois == resultados_auditoria'[rid]
              faixas == FaixasDaCompetencia(c)
              a == anexos_aliquotas[CHOOSE x \in faixas : \A y \in faixas : x <= y]
              pis == ProdutoEsperado(r.diferenca_base, TaxaEsperada(c), a.percentual_pis)
              cofins == ProdutoEsperado(r.diferenca_base, TaxaEsperada(c),
                                        a.percentual_cofins)
          IN  /\ \A f \in 1..3 : Impactos(depois)[f] # None
              /\ ArredondaPara(pis, Val(depois.pis_indev))
              /\ ArredondaPara(cofins, Val(depois.cofins_indev))
              /\ ArredondaPara(SomaEsperada(pis, cofins), Val(depois.total_indev))
              /\ (/\ r.base_monofasica_xml = 100000
                  /\ r.base_monofasica_pgdas = 70000
                  /\ TaxaEsperada(c) = [n |-> 1, d |-> 10]
                  /\ a.percentual_pis = 4000
                  /\ a.percentual_cofins = 6000)
                 => /\ r.diferenca_base = 30000
                    /\ Impactos(depois) = <<Some(1200), Some(1800), Some(3000)>>]_vars

\* C17 witness: the estimation of invoice base 1000.00 against 700.00
\* declared, with rate 0.1000 and shares 0.40 / 0.60, stored 12.00, 18.00
\* and 30.00
C17_Witness ==
    /\ ret.op = "calcular_indev_para_competencia"
    /\ ret.result # None
    /\ anexos_aliquotas = <<FaixaUm>>
    /\ LET r == resultados_auditoria[Val(ret.result).id]
       IN  /\ r.base_monofasica_xml = 100000
           /\ r.base_monofasica_pgdas = 70000
           /\ r.diferenca_base = 30000
           /\ competencias_pgdas[r.competencia_id].aliquota_efetiva = Some(1000)
           /\ Impactos(r) = <<Some(1200), Some(1800), Some(3000)>>

\* C18: for a declaration row with no memoized rate and trailing revenue
\* other than 0, resolving the effective rate returns (revenue x nominal
\* rate - deduction parcel) / revenue, from the row's own nominal rate and
\* parcel (null read as 0), and the memoized rate is that value.
C18_TaxaCalculadaEGravada ==
    [][(/\ ret'.op = "garantir_aliquota_efetiva"
        /\ competencias_pgdas[ret'.args[1]].aliquota_efetiva = None
        /\ competencias_pgdas[ret'.args[1]].receita_bruta_12m # 0)
       => LET c == competencias_pgdas[ret'.args[1]]
              depois == competencias_pgdas'[ret'.args[1]]
          IN  /\ ret'.result = Some(TaxaEsperada(c))
              /\ depois.aliquota_efetiva # None
              /\ Rat(Val(depois.aliquota_efetiva), RateScale) = TaxaEsperada(c)]_vars

\* ------------------------------------------------------------------------
\* routers/uploads.py: the multi-period run of POST /processar
\* ------------------------------------------------------------------------
\* the loop with "atual < fim" as its condition
RECURSIVE _gerar_intervalo_sem_final(_, _)
_gerar_intervalo_sem_final(competencia_inicial, competencia_final) ==
    IF ~LexLess(competencia_inicial, competencia_final)
    THEN [competencias |-> <<>>, erro |-> "ok"]
    ELSE IF competencia_inicial[2] = 12 /\ competencia_inicial[1] + 1 > MAXYEAR
    THEN [competencias |-> <<>>, erro |-> "ValueError"]
    ELSE LET resto == _gerar_intervalo_sem_final(
                        IF competencia_inicial[2] = 12
                        THEN <<competencia_inicial[1] + 1, 1>>
                        ELSE <<competencia_inicial[1], competencia_inicial[2] + 1>>,
                        competencia_final)
         IN  [competencias |-> <<competencia_inicial>> \o resto.competencias,
              erro |-> resto.erro]

\* _gerar_intervalo_competencias: [competencias |-> the period tokens from
\* the first to the last, December followed by January of the next year,
\* empty when the first is after the last; erro |-> "ok", or "ValueError"
\* when the step after December of MAXYEAR is taken (line 39), in which
\* case nothing is returned]
RECURSIVE _gerar_intervalo_competencias(_, _)
_gerar_intervalo_competencias(competencia_inicial, competencia_final) ==
    IF ~LexLeq(competencia_inicial, competencia_final)
    THEN [competencias |-> <<>>, erro |-> "ok"]
    ELSE IF competencia_inicial[2] = 12 /\ competencia_inicial[1] + 1 > MAXYEAR
    THEN [competencias |-> <<>>, erro |-> "ValueError"]
    ELSE LET resto == _gerar_intervalo_competencias(
                        IF competencia_inicial[2] = 12
                        THEN <<competencia_inicial[1] + 1, 1>>
                        ELSE <<competencia_inicial[1], competencia_inicial[2] + 1>>,
                        competencia_final)
         IN  IF resto.erro # "ok" THEN resto
             ELSE [competencias |-> <<competencia_inicial>> \o resto.competencias,
                   erro |-> "ok"]

\* rules_engine.classificar_itens_empresa_competencia on the invoice table
classificar_itens_empresa_competencia(tabela, notas, empresa, ano_mes) ==
    [k \in DOMAIN notas |->
        IF NotaNaCompetencia(notas[k], empresa, ano_mes)
        THEN ClassificarNota(tabela, notas[k])
        ELSE notas[k]]

\* calculator.calcular_indev_para_competencia on the tables of a run
calcular_indev_para_competencia(estado, anexos, empresa, ano_mes) ==
    LET rid == FirstIndex(estado.resultados,
                    LAMBDA r : /\ r.empresa_id = empresa
                               /\ estado.competencias[r.competencia_id].ano_mes = ano_mes)
    IN  IF rid = 0 THEN estado
        ELSE LET cid == estado.resultados[rid].competencia_id
                 c == calcular_indev_para_resultado(anexos, estado.resultados[rid],
                                                    estado.competencias[cid])
                 g == garantir_aliquota_efetiva(estado.competencias[cid])
             IN  [estado EXCEPT
                    !.resultados = [estado.resultados EXCEPT ![rid] = c.resultado],
                    !.competencias = [estado.competencias EXCEPT ![cid] = c.competencia],
                    !.memo = IF c.gravou THEN [estado.memo EXCEPT ![cid] = Some(g.valor)]
                             ELSE estado.memo]

\* a loop body that stops the run at a period without declaration
PassoAbortaSemCompetencia(estado, catalogo, anexos, empresa, comp) ==
    IF estado.erro # "ok" THEN estado
    ELSE IF FirstIndex(estado.competencias,
                       LAMBDA c : CompetenciaDaEmpresa(c, empresa, comp)) = 0
    THEN [estado EXCEPT !.erro = "NotFound"]
    ELSE LET notas == classificar_itens_empresa_competencia(catalogo, estado.notas,
                                                            empresa, comp)
             c == cruzar_competencia(notas, estado.competencias, estado.resultados,
                                     empresa, comp)
         IN  calcular_indev_para_competencia(
                [estado EXCEPT !.notas = notas, !.resultados = c.tabela],
                anexos, empresa, comp)

\* the body of the loop of lines 120-123: classification, cross-check and
\* estimation of one period
PassoAuditoria(estado, catalogo, anexos, empresa, comp) ==
    IF estado.erro # "ok" THEN estado
    ELSE LET notas == classificar_itens_empresa_competencia(catalogo, estado.notas,
                                                            empresa, comp)
             c == cruzar_competencia(notas, estado.competencias, estado.resultados,
                                     empresa, comp)
         IN  calcular_indev_para_competencia(
                [estado EXCEPT !.notas = notas, !.resultados = c.tabela],
                anexos, empresa, comp)

\* the loop of lines 120-123 over the generated periods
RECURSIVE ProcessarCompetencias(_, _, _, _, _)
ProcessarCompetencias(estado, catalogo, anexos, empresa, competencias) ==
    IF competencias = <<>> THEN estado
    ELSE ProcessarCompetencias(
            PassoAuditoria(estado, catalogo, anexos, empresa, Head(competencias)),
            catalogo, anexos, empresa, Tail(competencias))

\* the loop of lines 109-110: each invoice file is stored and committed
RECURSIVE ImportarXmls(_, _, _)
ImportarXmls(estado, empresa, xml_files) ==
    IF xml_files = <<>> THEN estado
    ELSE ImportarXmls(
            [estado EXCEPT !.notas = Append(estado.notas,
                [empresa_id |-> empresa, data_emissao |-> Head(xml_files).data_emissao,
                 itens |-> Head(xml_files).itens])],
            empresa, Tail(xml_files))

\* the loop of lines 113-114: each declaration file is imported and
\* committed; the first file that fails ends the request, the files before
\* it stay committed
RECURSIVE ImportarPgdas(_, _, _)
ImportarPgdas(estado, empresa, pgdas_files) ==
    IF pgdas_files = <<>> \/ estado.erro # "ok" THEN estado
    ELSE LET sessao == importar_pgdas_csv(Head(pgdas_files), estado.competencias, empresa)
         IN  IF sessao.erro # "ok" THEN [estado EXCEPT !.erro = sessao.erro]
             ELSE ImportarPgdas(
                    [estado EXCEPT
                        !.competencias = sessao.tabela,
                        !.memo = [i \in DOMAIN sessao.tabela |->
                                    IF i \in DOMAIN estado.memo THEN estado.memo[i]
                                    ELSE None]],
                    empresa, Tail(pgdas_files))

\* processar_auditoria, lines 102-123: the imports, then the loop over the
\* periods of the range. The reports and the page of lines 126-164 read the
\* tables and write files only.
processar_auditoria(estado, catalogo, anexos, empresa, competencia_inicial, competencia_final, xml_files, pgdas_files) ==
    LET importado == ImportarPgdas(ImportarXmls(estado, empresa, xml_files), empresa,
                                   pgdas_files)
        intervalo == _gerar_intervalo_competencias(competencia_inicial, competencia_final)
    IN  IF importado.erro = "ok" /\ intervalo.erro # "ok"
        THEN [importado EXCEPT !.erro = intervalo.erro]
        ELSE ProcessarCompetencias(importado, catalogo, anexos, empresa,
                                   intervalo.competencias)

ProcessarAuditoria(empresa, competencia_inicial, competencia_final, xml_files, pgdas_files) ==
    /\ Len(notas_fiscais) + Len(xml_files) <= MaxNotas
    /\ \E fim \in {processar_auditoria(
                    [notas |-> notas_fiscais, competencias |-> competencias_pgdas,
                     resultados |-> resultados_auditoria, memo |-> memo, erro |-> "ok"],
                    ncm_monofasicos, anexos_aliquotas, empresa, competencia_inicial,
                    competencia_final, xml_files, pgdas_files)} :
        /\ notas_fiscais' = fim.notas
        /\ competencias_pgdas' = fim.competencias
        /\ resultados_auditoria' = fim.resultados
        /\ memo' = fim.memo
        /\ ret' = Call("processar_auditoria",
                       <<empresa, competencia_inicial, competencia_final, pgdas_files>>,
                       fim.erro)
        /\ UNCHANGED <<execucao, ncm_monofasicos, anexos_aliquotas>>

\* the periods of the runs, across a year end
PeriodosAuditoria == {<<2023, 12>>, <<2024, 1>>, <<2024, 2>>}

\*  2024-02 declaring less than the invoices show
LinhaFev ==
    Linha(Some(<<2024, 2>>), Some("I"), Some(70000), Some(300), Some(1000), Some(10),
          Some(1000))

\* an invoice issued in February 2024, as the upload hands it over
XmlFev == [data_emissao |-> <<2024, 2, 10, 12>>, itens |-> NotaJan]

\* the files of a request: invoice files and declaration files
Uploads == {[xml_files |-> <<>>, pgdas_files |-> <<>>],
            [xml_files |-> <<XmlFev>>, pgdas_files |-> <<>>],
            [xml_files |-> <<>>, pgdas_files |-> << <<LinhaJan>> >>],
            [xml_files |-> <<>>, pgdas_files |-> << <<LinhaDez>>, <<LinhaFev>> >>],
            [xml_files |-> <<>>, pgdas_files |-> << <<LinhaFev>>, <<LinhaSemAnoMes>> >>]}

InitAuditoria ==
    /\ ncm_monofasicos = {NcmAberto}
    /\ anexos_aliquotas = <<FaixaUm>>
    /\ notas_fiscais = <<>>
    /\ competencias_pgdas = <<>>
    /\ resultados_auditoria = <<>>
    /\ memo = <<>>
    /\ execucao = None
    /\ ret = Call("init", <<>>, None)

\* the ranges of the runs: across the year end, inside 2024, and one whose
\* first period is after the last
Intervalos == {<< <<2023, 12>>, <<2024, 2>> >>, << <<2024, 1>>, <<2024, 2>> >>,
               << <<2024, 2>>, <<2023, 12>> >>}

NextAuditoria ==
    \/ \E r \in Intervalos, u \in Uploads :
          ProcessarAuditoria(1, r[1], r[2], u.xml_files, u.pgdas_files)
    \/ ImportarPgdasCsv(2, <<LinhaDez>>)

SpecAuditoria == InitAuditoria /\ [][NextAuditoria]_vars

TemCompetenciaEm(competencias, empresa, ano_mes) ==
    \E i \in DOMAIN competencias : CompetenciaDaEmpresa(competencias[i], empresa, ano_mes)

TemResultadoEm(resultados, competencias, empresa, ano_mes) ==
    \E k \in DOMAIN resultados :
        /\ resultados[k].empresa_id = empresa
        /\ competencias[resultados[k].competencia_id].ano_mes = ano_mes

TemCompetencia(empresa, ano_mes) == TemCompetenciaEm(competencias_pgdas, empresa, ano_mes)

TemResultado(empresa, ano_mes) ==
    TemResultadoEm(resultados_auditoria, competencias_pgdas, empresa, ano_mes)

DoIntervalo(ano_mes, inicial, final) == LexLeq(inicial, ano_mes) /\ LexLeq(ano_mes, final)

\* C19: a multi-period run ends with an error only when one of its
\* declaration files fails to import; otherwise it ends without error, also
\* when some period of the range has no declaration, and after it a summary
\* exists for a period of the range exactly when the entity has a
\* declaration for that period.
C19_PeriodoSemDeclaracaoIgnorado ==
    [][ret'.op = "processar_auditoria"
       => LET importado == ImportarPgdas(
                    [notas |-> notas_fiscais, competencias |-> competencias_pgdas,
                     resultados |-> resultados_auditoria, memo |-> memo, erro |-> "ok"],
                    ret'.args[1], ret'.args[4])
          IN  /\ ret'.result = importado.erro
              /\ importado.erro = "ok"
                 => \A p \in PeriodosAuditoria :
                       DoIntervalo(p, ret'.args[2], ret'.args[3])
                       => (TemResultadoEm(resultados_auditoria', competencias_pgdas',
                                          ret'.args[1], p)
                           <=> TemCompetenciaEm(competencias_pgdas', ret'.args[1], p))]_vars

\* a run over 2023-12..2024-02 with no declaration for 2024-01: summaries
\* for 2023-12 and 2024-02 only
C19_Witness ==
    /\ ret.op = "processar_auditoria" /\ ret.result = "ok"
    /\ ret.args[1] = 1 /\ ret.args[2] = <<2023, 12>> /\ ret.args[3] = <<2024, 2>>
    /\ ~TemCompetencia(1, <<2024, 1>>) /\ ~TemResultado(1, <<2024, 1>>)
    /\ TemResultado(1, <<2023, 12>>) /\ TemResultado(1, <<2024, 2>>)
    /\ Len(resultados_auditoria) = 2

\* ------------------------------------------------------------------------
\* The cross-check called again
\* ------------------------------------------------------------------------
\* cruzar_competencia called for the entity and period of the call just
\* before it, with nothing in between
CruzarCompetenciaDeNovo(empresa, ano_mes) ==
    /\ ret.op \in {"cruzar_competencia", "cruzar_competencia_de_novo"}
    /\ ret.args = <<empresa, ano_mes>>
    /\ \E c \in {cruzar_competencia(notas_fiscais, competencias_pgdas,
                                    resultados_auditoria, empresa, ano_mes)} :
        /\ resultados_auditoria' = c.tabela
        /\ ret' = Call("cruzar_competencia_de_novo", <<empresa, ano_mes>>, c.result)
    /\ UNCHANGED <<execucao, ncm_monofasicos, anexos_aliquotas, notas_fiscais,
                   competencias_pgdas, memo>>

NextRepetir ==
    \/ NextCruzar
    \/ \E e \in Empresas, p \in Periodos : CruzarCompetenciaDeNovo(e, p)

SpecRepetir == InitCruzar /\ [][NextRepetir]_vars

Bases(r) == <<r.base_monofasica_xml, r.base_monofasica_pgdas, r.diferenca_base>>

\* C20: a second consecutive cruzar_competencia for the same entity and
\* period, with invoices, item flags and the declaration row as the first
\* call saw them, creates no summary and leaves the three stored bases of
\* every summary as the first call left them.
C20_CruzarDeNovoNadaMuda ==
    [][(/\ ret'.op \in {"cruzar_competencia", "cruzar_competencia_de_novo"}
        /\ ret.op \in {"cruzar_competencia", "cruzar_competencia_de_novo"}
        /\ ret'.args = ret.args)
       => /\ Len(resultados_auditoria') = Len(resultados_auditoria)
          /\ \A k \in DOMAIN resultados_auditoria :
                Bases(resultados_auditoria'[k]) = Bases(resultados_auditoria[k])
          /\ ret'.result = ret.result]_vars

\* after the second call for January 2024 of entity 1: one summary, with
\* the bases of the first call (1000.00 of invoices against 700.00 declared)
C20_Witness ==
    /\ ret = Call("cruzar_competencia_de_novo", <<1, <<2024, 1>> >>, Some(1))
    /\ Len(resultados_auditoria) = 1
    /\ Bases(resultados_auditoria[1]) = <<100000, 70000, 30000>>

\* C21: cruzar_competencia leaves pis_indev, cofins_indev and total_indev
\* of every summary that existed before the call as they were, also when
\* the call changes the difference or its sign.
C21_CruzarNaoTocaImpactos ==
    [][ret'.op = "cruzar_competencia"
       => \A k \in DOMAIN resultados_auditoria :
             Impactos(resultados_auditoria'[k]) = Impactos(resultados_auditoria[k])]_vars

\* the difference went from negative (the zeros of that estimation are
\* still stored) to positive in the cross-check made after classification
C21_Witness ==
    /\ ret.op = "cruzar_competencia" /\ ret.result = Some(1)
    /\ resultados_auditoria[1].diferenca_base = 30000
    /\ Impactos(resultados_auditoria[1]) = <<Some(0), Some(0), Some(0)>>

\* the row of the file is stored for the entity with the values it carries
LinhaGravada(competencias, empresa, linha) ==
    \E i \in DOMAIN competencias :
        /\ competencias[i].empresa_id = empresa
        /\ competencias[i].ano_mes = Val(linha.ano_mes)
        /\ competencias[i] = AtribuirCampos(competencias[i], linha)

\* C22: when a declaration file has a row without period token, the rows
\* of that file that carry one are stored all the same, and the rows stored
\* before the import for other periods keep their values.
C22_SoALinhaSemPeriodoFalha ==
    [][\A e \in Empresas, linhas \in ArquivosImportacao :
          (/\ ImportarPgdasCsv(e, linhas)
           /\ \E k \in DOMAIN linhas : linhas[k].ano_mes = None)
          => /\ \A k \in DOMAIN linhas :
                   linhas[k].ano_mes # None
                   => LinhaGravada(competencias_pgdas', e, linhas[k])
             /\ \A i \in DOMAIN competencias_pgdas :
                   (\A k \in DOMAIN linhas :
                        linhas[k].ano_mes # Some(competencias_pgdas[i].ano_mes))
                   => competencias_pgdas'[i] = competencias_pgdas[i]]_vars

\* ------------------------------------------------------------------------
\* routers/uploads.py: POST /processar commit by commit
\* ------------------------------------------------------------------------
\* A request in progress is [empresa, inicial, final, competencias |-> the
\* periods still to process, the first being the current one, etapa |-> the
\* index in EtapasDaCompetencia of the next call, pendente |-> None, or
\* Some([id, resultado]) when calcular_indev_para_resultado has committed the
\* effective rate and not yet the summary].

\* the loop body with the cross-check called before the classification
EtapasTrocadas == <<"cruzar_competencia", "classificar_itens_empresa_competencia",
                    "calcular_indev_para_competencia">>

\* the calls of the loop body, lines 121-123, in their order
EtapasDaCompetencia == <<"classificar_itens_empresa_competencia", "cruzar_competencia",
                         "calcular_indev_para_competencia">>

\* the position after a call of the loop body returned
Avancar(e) ==
    IF e.etapa < Len(EtapasDaCompetencia)
    THEN [e EXCEPT !.etapa = @ + 1, !.pendente = None]
    ELSE [e EXCEPT !.competencias = Tail(@), !.etapa = 1, !.pendente = None]

EmEtapa(nome) ==
    /\ execucao # None
    /\ Val(execucao).competencias # <<>>
    /\ Val(execucao).pendente = None
    /\ EtapasDaCompetencia[Val(execucao).etapa] = nome

\* line 117: the periods of the range
IniciarExecucao(empresa, competencia_inicial, competencia_final) ==
    /\ execucao = None
    /\ \E intervalo \in {_gerar_intervalo_competencias(competencia_inicial,
                                                      competencia_final)} :
        /\ execucao' =
                IF intervalo.erro # "ok" THEN None
                ELSE Some([empresa |-> empresa, inicial |-> competencia_inicial,
                           final |-> competencia_final,
                           competencias |-> intervalo.competencias,
                           etapa |-> 1, pendente |-> None])
        /\ ret' = Call("_gerar_intervalo_competencias",
                       <<competencia_inicial, competencia_final>>, Some(intervalo))
    /\ UNCHANGED <<ncm_monofasicos, anexos_aliquotas, notas_fiscais, competencias_pgdas,
                   resultados_auditoria, memo>>

\* line 121
EtapaClassificar ==
    /\ EmEtapa("classificar_itens_empresa_competencia")
    /\ \E e \in {Val(execucao)} :
        /\ notas_fiscais' = classificar_itens_empresa_competencia(
                ncm_monofasicos, notas_fiscais, e.empresa, Head(e.competencias))
        /\ ret' = Call("classificar_itens_empresa_competencia",
                       <<e.empresa, Head(e.competencias)>>,
                       Some(ItensProcessados(notas_fiscais, e.empresa, Head(e.competencias))))
        /\ execucao' = Some(Avancar(e))
    /\ UNCHANGED <<ncm_monofasicos, anexos_aliquotas, competencias_pgdas,
                   resultados_auditoria, memo>>

\* line 122
EtapaCruzar ==
    /\ EmEtapa("cruzar_competencia")
    /\ \E e \in {Val(execucao)} :
       \E c \in {cruzar_competencia(notas_fiscais, competencias_pgdas,
                                    resultados_auditoria, e.empresa, Head(e.competencias))} :
        /\ resultados_auditoria' = c.tabela
        /\ ret' = Call("cruzar_competencia", <<e.empresa, Head(e.competencias)>>, c.result)
        /\ execucao' = Some(Avancar(e))
    /\ UNCHANGED <<ncm_monofasicos, anexos_aliquotas, notas_fiscais, competencias_pgdas,
                   memo>>

\* line 123, up to the first commit of the call: the commit of
\* garantir_aliquota_efetiva (calculator.py lines 66 and 74) when the call
\* stores the effective rate, else the commit of the summary
EtapaCalcular ==
    /\ EmEtapa("calcular_indev_para_competencia")
    /\ \E e \in {Val(execucao)} :
       \E rid \in {FirstIndex(resultados_auditoria,
                      LAMBDA r : /\ r.empresa_id = e.empresa
                                 /\ competencias_pgdas[r.competencia_id].ano_mes
                                        = Head(e.competencias))} :
        IF rid = 0
        THEN /\ ret' = Call("calcular_indev_para_competencia",
                            <<e.empresa, Head(e.competencias)>>, None)
             /\ execucao' = Some(Avancar(e))
             /\ UNCHANGED <<competencias_pgdas, resultados_auditoria, memo>>
        ELSE \E cid \in {resultados_auditoria[rid].competencia_id} :
             \E c \in {calcular_indev_para_resultado(anexos_aliquotas,
                          resultados_auditoria[rid], competencias_pgdas[cid])} :
                IF c.gravou
                THEN /\ competencias_pgdas' =
                            [competencias_pgdas EXCEPT ![cid] = c.competencia]
                     /\ memo' = [memo EXCEPT ![cid] =
                            Some(garantir_aliquota_efetiva(competencias_pgdas[cid]).valor)]
                     /\ ret' = Call("garantir_aliquota_efetiva", <<cid>>,
                            Some(garantir_aliquota_efetiva(competencias_pgdas[cid]).valor))
                     /\ execucao' = Some([e EXCEPT !.pendente =
                                            Some([id |-> rid, resultado |-> c.resultado])])
                     /\ UNCHANGED resultados_auditoria
                ELSE /\ resultados_auditoria' =
                            [resultados_auditoria EXCEPT ![rid] = c.resultado]
                     /\ ret' = Call("calcular_indev_para_competencia",
                                    <<e.empresa, Head(e.competencias)>>,
                                    Some([id |-> rid, gravou |-> FALSE]))
                     /\ execucao' = Some(Avancar(e))
                     /\ UNCHANGED <<competencias_pgdas, memo>>
    /\ UNCHANGED <<ncm_monofasicos, anexos_aliquotas, notas_fiscais>>

\* line 123, the commit of the summary (calculator.py lines 119 and 135)
\* after the commit of the effective rate
EtapaGravarImpactos ==
    /\ execucao # None
    /\ Val(execucao).pendente # None
    /\ \E e \in {Val(execucao)} :
        /\ resultados_auditoria' =
                [resultados_auditoria EXCEPT ![Val(e.pendente).id] = Val(e.pendente).resultado]
        /\ ret' = Call("calcular_indev_para_competencia",
                       <<e.empresa, Head(e.competencias)>>,
                       Some([id |-> Val(e.pendente).id, gravou |-> TRUE]))
        /\ execucao' = Some(Avancar(e))
    /\ UNCHANGED <<ncm_monofasicos, anexos_aliquotas, notas_fiscais, competencias_pgdas,
                   memo>>

\* the loop is over: the request answers
ConcluirExecucao ==
    /\ execucao # None
    /\ Val(execucao).competencias = <<>>
    /\ ret' = Call("processar_auditoria",
                   <<Val(execucao).empresa, Val(execucao).inicial, Val(execucao).final>>,
                   "ok")
    /\ execucao' = None
    /\ UNCHANGED <<ncm_monofasicos, anexos_aliquotas, notas_fiscais, competencias_pgdas,
                   resultados_auditoria, memo>>

\* the process stops; what was committed stays
InterromperExecucao ==
    /\ execucao # None
    /\ Val(execucao).competencias # <<>>
    /\ ret' = Call("processar_auditoria",
                   <<Val(execucao).empresa, Val(execucao).inicial, Val(execucao).final>>,
                   "interrompida")
    /\ execucao' = None
    /\ UNCHANGED <<ncm_monofasicos, anexos_aliquotas, notas_fiscais, competencias_pgdas,
                   resultados_auditoria, memo>>

\* the data of the runs: entity 1 with an invoice in January and one in
\* February 2024 and the declarations of December to February, of which
\* January has no effective rate
NotasIniciais == <<Nota(1, <<2024, 1, 15, 12>>, NotaJan), Nota(1, XmlFev.data_emissao, XmlFev.itens)>>

CompetenciasIniciais == importar_pgdas_csv(<<LinhaDez, LinhaJan, LinhaFev>>, <<>>, 1).tabela

InitEtapas ==
    /\ ncm_monofasicos = {NcmAberto}
    /\ anexos_aliquotas \in {<<>>, <<FaixaUm>>}
    /\ notas_fiscais = NotasIniciais
    /\ competencias_pgdas = CompetenciasIniciais
    /\ resultados_auditoria = <<>>
    /\ execucao = None
    /\ memo = [i \in DOMAIN CompetenciasIniciais |-> None]
    /\ ret = Call("init", <<>>, None)

PassoDaExecucao ==
    \/ EtapaClassificar
    \/ EtapaCruzar
    \/ EtapaCalcular
    \/ EtapaGravarImpactos
    \/ ConcluirExecucao
    \/ InterromperExecucao

NextEtapas ==
    \/ \E i \in PeriodosAuditoria, f \in PeriodosAuditoria : IniciarExecucao(1, i, f)
    \/ PassoDaExecucao

SpecEtapas == InitEtapas /\ [][NextEtapas]_vars

MesSeguinte(ano_mes) ==
    IF ano_mes[2] = 12 THEN <<ano_mes[1] + 1, 1>> ELSE <<ano_mes[1], ano_mes[2] + 1>>

\* the stage of a call of the loop: 1 classification, 2 reconciliation,
\* 3 estimation (the commit of the rate is inside the estimation)
EstagioDe(chamada) ==
    CASE chamada.op = "classificar_itens_empresa_competencia" -> 1
      [] chamada.op = "cruzar_competencia" -> 2
      [] OTHER -> 3

PeriodoDe(chamada) ==
    IF chamada.op = "garantir_aliquota_efetiva"
    THEN competencias_pgdas[chamada.args[1]].ano_mes
    ELSE chamada.args[2]

ChamadaDeEtapa(chamada) ==
    chamada.op \in {"classificar_itens_empresa_competencia", "cruzar_competencia",
                    "garantir_aliquota_efetiva", "calcular_indev_para_competencia"}

\* C23: inside a run the first call is the classification of the first
\* period of the range; after classification comes the reconciliation of
\* the same period, after it the estimation of the same period, and after
\* the estimation has finished the classification of the next calendar
\* month, so periods are taken in ascending order and no stage of a later
\* period starts before the three stages of the earlier one are over.
C23_EtapasEmOrdem ==
    [][(execucao # None /\ ChamadaDeEtapa(ret'))
       => IF ret.op = "_gerar_intervalo_competencias"
          THEN EstagioDe(ret') = 1 /\ ret'.args[2] = ret.args[1]
          ELSE \/ /\ EstagioDe(ret) < 3
                  /\ EstagioDe(ret') = EstagioDe(ret) + 1
                  /\ PeriodoDe(ret') = PeriodoDe(ret)
               \/ /\ ret.op = "garantir_aliquota_efetiva"
                  /\ ret'.op = "calcular_indev_para_competencia"
                  /\ PeriodoDe(ret') = PeriodoDe(ret)
               \/ /\ ret.op = "calcular_indev_para_competencia"
                  /\ EstagioDe(ret') = 1
                  /\ PeriodoDe(ret') = MesSeguinte(PeriodoDe(ret))]_vars

\* a run over 2023-12..2024-02 has reached the estimation of February
C23_Witness ==
    /\ execucao # None
    /\ Val(execucao).inicial = <<2023, 12>> /\ Val(execucao).final = <<2024, 2>>
    /\ ret.op = "calcular_indev_para_competencia" /\ ret.args[2] = <<2024, 2>>
    /\ Len(resultados_auditoria) = 3
    /\ \A k \in DOMAIN resultados_auditoria : resultados_auditoria[k].total_indev # None

\* ------------------------------------------------------------------------
\* _gerar_intervalo_competencias alone
\* ------------------------------------------------------------------------
\* period tokens at the edges of the years, and the last two months a
\* datetime can hold
PeriodosGerar ==
    {<<ano, mes>> : ano \in {2023, 2024, 2025}, mes \in {1, 2, 11, 12}}
        \cup {<<MAXYEAR, 11>>, <<MAXYEAR, 12>>}

\* the calls: every pair of tokens but those that span thousands of years
EntradasGerar ==
    {par \in PeriodosGerar \X PeriodosGerar :
        par[1][1] = MAXYEAR \/ par[2][1] < MAXYEAR}

ChamarGerarIntervalo(competencia_inicial, competencia_final) ==
    /\ ret' = Call("_gerar_intervalo_competencias",
                   <<competencia_inicial, competencia_final>>,
                   Some(_gerar_intervalo_competencias(competencia_inicial,
                                                      competencia_final)))
    /\ UNCHANGED <<ncm_monofasicos, anexos_aliquotas, notas_fiscais, competencias_pgdas,
                   resultados_auditoria, execucao, memo>>

NextGerar == \E par \in EntradasGerar : ChamarGerarIntervalo(par[1], par[2])

SpecGerar == InitVazio /\ [][NextGerar]_vars

\* months since year 0
MesOrdinal(ano_mes) == 12 * ano_mes[1] + (ano_mes[2] - 1)

\* the list holds exactly the calendar months from the first token to the
\* last, each once and ascending, and nothing when the first is after the last
MesesDoIntervalo(lista, inicial, final) ==
    /\ Len(lista) = IF LexLeq(inicial, final)
                    THEN 12 * (final[1] - inicial[1]) + (final[2] - inicial[2]) + 1
                    ELSE 0
    /\ \A k \in DOMAIN lista :
          /\ lista[k][2] \in 1..12
          /\ MesOrdinal(lista[k]) = MesOrdinal(inicial) + (k - 1)

\* C24 as stated: for every pair of valid tokens the call returns the
\* calendar months from start to end inclusive, each once, ascending,
\* December followed by January, of the stated length, and nothing when
\* start is after end.
C24_TodosOsMeses ==
    ret.op = "_gerar_intervalo_competencias"
    => /\ Val(ret.result).erro = "ok"
       /\ MesesDoIntervalo(Val(ret.result).competencias, ret.args[1], ret.args[2])

\* C24 amended: the same for every pair of valid tokens whose range does not
\* hold December of the last year a datetime can have (9999-12), where the
\* step to the next month raises ValueError.
C24_TodosOsMesesAteMaxYear ==
    ret.op = "_gerar_intervalo_competencias"
    => IF LexLeq(ret.args[1], ret.args[2]) /\ ret.args[2] = <<MAXYEAR, 12>>
       THEN Val(ret.result).erro = "ValueError"
       ELSE /\ Val(ret.result).erro = "ok"
            /\ MesesDoIntervalo(Val(ret.result).competencias, ret.args[1], ret.args[2])

\* 2023-11..2024-02: four months across the year end
C24_Witness ==
    /\ ret.op = "_gerar_intervalo_competencias"
    /\ ret.args = << <<2023, 11>>, <<2024, 2>> >>
    /\ Val(ret.result).competencias = << <<2023, 11>>, <<2023, 12>>, <<2024, 1>>, <<2024, 2>> >>

\* ------------------------------------------------------------------------
\* calcular_base_monofasica_xml alone
\* ------------------------------------------------------------------------
\* the tokens of the calls: the periods of the invoices and the last month a
\* datetime can hold
PeriodosBase == Periodos \cup {<<MAXYEAR, 12>>}

\* rules_engine.calcular_base_monofasica_xml: the window is computed first
\* (line 150) and its ValueError leaves the call; the query reads only
ChamarCalcularBaseMonofasicaXml(empresa, ano_mes) ==
    /\ ret' = Call("calcular_base_monofasica_xml", <<empresa, ano_mes>>,
                   IF _intervalo_datas_competencia(ano_mes).erro # "ok"
                   THEN Some([valor |-> 0,
                              erro |-> _intervalo_datas_competencia(ano_mes).erro])
                   ELSE Some([valor |-> calcular_base_monofasica_xml(notas_fiscais,
                                                                    empresa, ano_mes),
                              erro |-> "ok"]))
    /\ UNCHANGED <<ncm_monofasicos, anexos_aliquotas, notas_fiscais, competencias_pgdas,
                   resultados_auditoria, execucao, memo>>

NextBase ==
    \/ \E n \in NotasCruzar : ImportarXmlNfe(n.empresa_id, n.data_emissao, n.itens)
    \/ \E e \in Empresas, p \in Periodos : ClassificarItensEmpresaCompetencia(e, p)
    \/ \E e \in Empresas, p \in PeriodosBase : ChamarCalcularBaseMonofasicaXml(e, p)

SpecBase == InitCruzar /\ [][NextBase]_vars

\* C25 as stated: for every period token the call returns the sum of
\* valor_total over exactly the entity's exempt-flagged items whose invoice
\* timestamp is in the half-open calendar month of the token (from its
\* first instant up to, not including, the first instant of the next month,
\* December followed by January of the next year), and 0 when there is none.
C25_BaseDaJanelaDoMes ==
    ret.op = "calcular_base_monofasica_xml"
    => /\ Val(ret.result).erro = "ok"
       /\ Val(ret.result).valor =
            SomaValorTotal(ItensIsentosDoMes(ret.args[1], ret.args[2]))

\* C25 amended: the same for every period token before December of the
\* last year a datetime can hold; for 9999-12 the window has no end that a
\* datetime can hold and the call raises ValueError.
C25_BaseDaJanelaAteMaxYear ==
    ret.op = "calcular_base_monofasica_xml"
    => IF ret.args[2] = <<MAXYEAR, 12>>
       THEN Val(ret.result).erro = "ValueError"
       ELSE /\ Val(ret.result).erro = "ok"
            /\ Val(ret.result).valor =
                    SomaValorTotal(ItensIsentosDoMes(ret.args[1], ret.args[2]))

\* the December base with an exempt invoice inside December and an exempt
\* item stamped exactly at the first instant of January, which is left out
C25_Witness ==
    /\ ret = Call("calcular_base_monofasica_xml", <<1, <<2023, 12>> >>,
                  Some([valor |-> 100000, erro |-> "ok"]))
    /\ \E k \in DOMAIN notas_fiscais :
          /\ notas_fiscais[k].empresa_id = 1
          /\ notas_fiscais[k].data_emissao = <<2024, 1, 1, 0>>
          /\ \E i \in DOMAIN notas_fiscais[k].itens : notas_fiscais[k].itens[i].eh_monofasico

\* C26: every stage call of a run stores its changes in one commit: no
\* committed state holds part of a call's changes. In particular there is
\* no committed state in which an estimation call has stored the effective
\* rate of the declaration row and not yet the impact fields of the summary.
C26_UmCommitPorEtapa ==
    [][(execucao # None /\ competencias_pgdas' # competencias_pgdas)
       => /\ ret'.op = "calcular_indev_para_competencia"
          /\ Val(execucao').pendente = None]_vars

\* ------------------------------------------------------------------------
\* A run that is interrupted and executed again
\* ------------------------------------------------------------------------
\* the range of the runs
InicialRetomada == <<2023, 12>>
FinalRetomada == <<2024, 2>>

Concluida == ret.op = "processar_auditoria" /\ ret.result = "ok"

\* runs of the same range over the same data, each one interrupted at some
\* commit or left to finish; nothing runs after the one that finished
NextRetomada ==
    \/ ~Concluida /\ IniciarExecucao(1, InicialRetomada, FinalRetomada)
    \/ PassoDaExecucao

SpecRetomada == InitEtapas /\ [][NextRetomada]_vars

\* the tables after one run of the range that nothing interrupts, from the
\* data of InitEtapas
ExecucaoUnica ==
    ProcessarCompetencias(
        [notas |-> NotasIniciais, competencias |-> CompetenciasIniciais,
         resultados |-> <<>>, memo |-> [i \in DOMAIN CompetenciasIniciais |-> None],
         erro |-> "ok"],
        ncm_monofasicos, anexos_aliquotas, 1,
        _gerar_intervalo_competencias(InicialRetomada, FinalRetomada).competencias)

\* C27: when a run of the range finishes, after any number of runs of the
\* same range that were interrupted at a commit, the summaries (bases,
\* difference, impact fields) and the effective rates of the declaration
\* rows are those that one uninterrupted run of the range leaves.
C27_RetomadaIgualExecucaoUnica ==
    Concluida
    => /\ Len(resultados_auditoria) = Len(ExecucaoUnica.resultados)
       /\ \A k \in DOMAIN resultados_auditoria :
             /\ resultados_auditoria[k].competencia_id
                    = ExecucaoUnica.resultados[k].competencia_id
             /\ Bases(resultados_auditoria[k]) = Bases(ExecucaoUnica.resultados[k])
             /\ Impactos(resultados_auditoria[k]) = Impactos(ExecucaoUnica.resultados[k])
       /\ \A i \in DOMAIN competencias_pgdas :
             competencias_pgdas[i].aliquota_efetiva
                = ExecucaoUnica.competencias[i].aliquota_efetiva

\* ------------------------------------------------------------------------
\* Runs that stop, with declarations imported again between them
\* ------------------------------------------------------------------------
NextParada ==
    \/ NextEtapas
    \/ /\ execucao = None
       /\ \E linhas \in {<<LinhaJan>>, <<LinhaJanEfetiva>>} : ImportarPgdasCsv(1, linhas)

SpecParada == InitEtapas /\ [][NextParada]_vars

\* C28: in every committed state, also when the process stopped between
\* reconciliation and estimation, every summary has diferenca_base equal to
\* base_monofasica_xml minus base_monofasica_pgdas, whatever its impact
\* fields hold.
C28_DiferencaCoerente ==
    \A k \in DOMAIN resultados_auditoria :
        resultados_auditoria[k].diferenca_base =
            resultados_auditoria[k].base_monofasica_xml
                - resultados_auditoria[k].base_monofasica_pgdas

\* the process stopped after a reconciliation: one summary holds new bases
\* and a new difference with the impact fields of an earlier estimation,
\* another one holds its bases with the impact fields unset
C28_Witness ==
    /\ execucao = None
    /\ ret.op = "processar_auditoria" /\ ret.result = "interrompida"
    /\ \E k \in DOMAIN resultados_auditoria :
          /\ Bases(resultados_auditoria[k]) = <<100000, 70000, 30000>>
          /\ resultados_auditoria[k].total_indev = Some(6667)
    /\ \E k \in DOMAIN resultados_auditoria :
          /\ Bases(resultados_auditoria[k]) = <<100000, 70000, 30000>>
          /\ competencias_pgdas[resultados_auditoria[k].competencia_id].ano_mes = <<2024, 2>>
          /\ Impactos(resultados_auditoria[k]) = <<None, None, None>>

\* ------------------------------------------------------------------------
\* Estimation on differences of a few cents
\* ------------------------------------------------------------------------
\* a row of 2024-01 declaring 1.00 with the effective rate given: 0.1000
LinhaJanUmReal ==
    Linha(Some(<<2024, 1>>), Some("I"), Some(100), Some(300), Some(2000), Some(10),
          Some(1000))

\* invoices of January 2024 with one exempt item: 1.36, 1.35 and 1.00
NotasCentavos ==
    {<<Item("2710", Some(CST04), Some(CST04), v)>> : v \in {136, 135, 100}}

NextCentavos ==
    \/ \E itens \in NotasCentavos : ImportarXmlNfe(1, <<2024, 1, 15, 12>>, itens)
    \/ ClassificarItensEmpresaCompetencia(1, <<2024, 1>>)
    \/ \E linhas \in {<<LinhaJanVazia>>, <<LinhaJanUmReal>>} : ImportarPgdasCsv(1, linhas)
    \/ CruzarCompetencia(1, <<2024, 1>>)
    \/ CalcularIndevParaCompetencia(1, <<2024, 1>>)

SpecCentavos == Init /\ [][NextCentavos]_vars

\* the last call was an estimation that found a positive difference and a
\* bracket and stored the three impact fields
EstimativaGravada ==
    /\ ret.op = "calcular_indev_para_competencia"
    /\ ret.result # None
    /\ resultados_auditoria[Val(ret.result).id].diferenca_base > 0
    /\ resultados_auditoria[Val(ret.result).id].total_indev # None

\* C29 as stated: after an estimation with positive difference and a
\* matching bracket the stored total_indev is the stored pis_indev plus the
\* stored cofins_indev, all three at the two decimals of their columns.
C29_TotalSomaDosGravados ==
    EstimativaGravada
    => LET r == resultados_auditoria[Val(ret.result).id]
       IN  Val(r.total_indev) = Val(r.pis_indev) + Val(r.cofins_indev)

\* C29 amended: the stored total_indev is the exact sum of the two exact
\* impacts rounded to two decimals, so it is the stored pis_indev plus the
\* stored cofins_indev or differs from it by one cent.
C29_TotalAUmCentavoDaSoma ==
    EstimativaGravada
    => LET r == resultados_auditoria[Val(ret.result).id]
       IN  Abs(Val(r.total_indev) - (Val(r.pis_indev) + Val(r.cofins_indev))) <= 1

\* difference 0.36 at rate 0.1000 split 0.40 / 0.60: 0.0144 and 0.0216 are
\* stored as 0.01 and 0.02, their sum 0.036 as 0.04
C29_Witness ==
    /\ EstimativaGravada
    /\ resultados_auditoria[Val(ret.result).id].diferenca_base = 36
    /\ Impactos(resultados_auditoria[Val(ret.result).id]) = <<Some(1), Some(2), Some(4)>>

\* ------------------------------------------------------------------------
\* Estimation on rate inputs that give a negative effective rate
\* ------------------------------------------------------------------------
\* rows of 2024-01 declaring 1.00 on trailing revenue 3.00 without effective
\* rate: the nominal rate empty and a parcel of 0.10; the nominal rate 0.10
\* and a parcel of 0.60, larger than 3.00 * 0.10
LinhaJanSemNominal ==
    Linha(Some(<<2024, 1>>), Some("I"), Some(100), Some(300), None, Some(10), None)
LinhaJanParcelaMaior ==
    Linha(Some(<<2024, 1>>), Some("I"), Some(100), Some(300), Some(1000), Some(60), None)

ArquivosParcela == {<<LinhaJanSemNominal>>, <<LinhaJanParcelaMaior>>, <<LinhaJanUmReal>>}

\* an invoice of January 2024 with one exempt item of 11.00
NotaOnzeReais == <<Item("2710", Some(CST04), Some(CST04), 1100)>>

NextParcela ==
    \/ ImportarXmlNfe(1, <<2024, 1, 15, 12>>, NotaOnzeReais)
    \/ ClassificarItensEmpresaCompetencia(1, <<2024, 1>>)
    \/ \E linhas \in ArquivosParcela : ImportarPgdasCsv(1, linhas)
    \/ CruzarCompetencia(1, <<2024, 1>>)
    \/ CalcularIndevParaCompetencia(1, <<2024, 1>>)

SpecParcela == Init /\ [][NextParcela]_vars

\* C30: whenever an estimation stores impact fields for a summary with a
\* positive difference, pis_indev, cofins_indev and total_indev are all at
\* least 0, whatever the rate inputs of the declaration row (an empty nominal
\* rate or a parcel larger than revenue times nominal rate included).
C30_ImpactosNaoNegativos ==
    EstimativaGravada
    => LET r == resultados_auditoria[Val(ret.result).id]
       IN  /\ Val(r.pis_indev) >= 0
           /\ Val(r.cofins_indev) >= 0
           /\ Val(r.total_indev) >= 0

====
